---- MODULE Spec2Model ----
(***************************************************************************)
(* The judging engine of problemtools' verifyproblem.py: wait-status       *)
(* classification, output-validator result parsing, the interactive       *)
(* protocol, the three-limit classification of a test case, the           *)
(* aggregation of a test group, the time-limit inference of the           *)
(* submission checker and the error accounting of Problem.check.          *)
(*                                                                         *)
(* Conventions:                                                            *)
(*   - Python None is the string "None" in string-valued fields and the   *)
(*     empty sequence in the score and test case fields (a score s is     *)
(*     <<s>>);                                                            *)
(*   - a wall-clock time is an integer number of ticks, Scale ticks to    *)
(*     the second; limits are whole seconds as in the source;             *)
(*   - a wait status is the 16-bit integer os.wait returns;               *)
(*   - a Python exception leaving a function is the field exc of what     *)
(*     the function's operator returns.                                   *)
(***************************************************************************)
EXTENDS Integers, Sequences, FiniteSets, TLC

VARIABLES
    pc,         \* where the modelled call stands: "call", then "done"
    pv_args,    \* _parse_validator_results: the arguments of the call
    pv_res,     \* _parse_validator_results: the SubmissionResult returned
    errors,     \* ProblemAspect.errors
    iv_args,    \* validate_interactive: timelim, the problem's custom_scoring,
                \* whether the interactive tool was found, how many validators
    iv_i,       \* validate_interactive: validators the loop has gone through
    iv_run,     \* validate_interactive: what the last coordinator run gave
    iv_prev,    \* validate_interactive: res before the last loop iteration
    iv_res,     \* validate_interactive: res
    config,     \* the problem: is_interactive, is_scoring, custom_scoring
    tc_call,    \* TestCase.run_submission: the case, the limits, the score of
                \* the case's group and what the processes of the call do
    tc_ret,     \* TestCase.run_submission: the triple returned
    result_cache, \* TestCase._result_cache of each test case
    tr_cfg,     \* the test-data tree: is_scoring, the groups' grading
                \* configuration and the limits of the run
    tr_leaves,  \* the triples the test cases of sample and of secret returned
    tr_groups,  \* the triples the groups under the root returned
    tr_left,    \* test cases the tree may still get
    agg_group,  \* the group whose run_submission returned or raised last
    agg_out,    \* what that call returned: the triple or the exception
    seen_oob_scores, \* TestCaseGroup._seen_oob_scores of each group
    warnings,   \* ProblemAspect.warnings
    sb_cfg,     \* Submissions.check: the problem (type, limits of problem.yaml,
                \* test cases of sample and of secret) and the arguments
    sb_subs,    \* Submissions._submissions: how many programs each directory has
    sb_acr,     \* Submissions.check: the position of the loop in _VERDICTS
    sb_i,       \* Submissions.check: programs of the directory gone through
    sb_limits,  \* Submissions.check: timelim, timelim_margin_lo, timelim_margin
    sb_runtimes, \* Submissions.check: runtimes
    sb_call,    \* the last call of check_submission: its label, the limits it
                \* ran the tree with, what it got and what it reported
    pr_args,    \* main: args.bail_on_error, args.werror
    pr_left,    \* main: problem directories still to verify
    pr_shortname, \* Problem.shortname
    pr_part,    \* Problem.check: parts gone through
    bail_on_error, \* ProblemAspect.bail_on_error
    logged_errors, \* the calls of logging.error (line 114) so far
    total_errors, \* main: total_errors
    exit_code,  \* the exit status of the process, None while it runs
    rc_args,    \* Problem.check: args.bail_on_error, args.werror
    rc_package, \* the package: its shortname, what the check of each
                \* component finds, whether a submission scores out of bounds
    check_res,  \* _check_res of each component
    rc_items,   \* Problem.check: the items whose check is still to call
    rc_returns, \* what the calls of each component's check returned so far
    rc_pairs,   \* what the calls of Problem.check returned so far
    al_log,     \* the calls of TestCase.run_submission so far: the case, the
                \* key, the triple returned and whether it was reused
    ld_yaml,    \* the mapping under the key grading of each group's
                \* testdata.yaml, NoGrading if the file has no such key
    ld_pos,     \* how far the constructors of the groups have come
    ld_dict,    \* the mappings config['grading'] refers to, one for each
                \* group whose testdata.yaml has the key
    ld_ref,     \* the mapping config['grading'] of each group refers to
    ns_call,    \* natural_sort_le: the arguments a and b
    ns_ret,     \* natural_sort_le: what the call returned or raised
    sc_cfg,     \* InputFormatValidators.check: the validators, all_flags, the
                \* test cases of the tree and the arguments
    sc_pos,     \* the junk cases and modifications gone through
    sc_last     \* the last of them: what the validators did, what was reported

treeVars == <<tr_cfg, tr_leaves, tr_groups, tr_left, agg_group, agg_out, seen_oob_scores>>

parseVars == <<pv_args, pv_res>>
interVars == <<iv_args, iv_i, iv_run, iv_prev, iv_res>>
caseVars == <<config, tc_call, tc_ret, result_cache>>
subsVars == <<sb_cfg, sb_subs, sb_acr, sb_i, sb_limits, sb_runtimes, sb_call>>
problemVars ==
    <<pr_args, pr_left, pr_shortname, pr_part, bail_on_error, logged_errors,
      total_errors, exit_code>>
recheckVars == <<rc_args, rc_package, check_res, rc_items, rc_returns, rc_pairs>>
aliasVars == <<al_log>>
loadVars == <<ld_yaml, ld_pos, ld_dict, ld_ref>>
sortVars == <<ns_call, ns_ret>>
sanityVars == <<sc_cfg, sc_pos, sc_last>>
vars ==
    <<pc, errors, warnings, parseVars, interVars, caseVars, treeVars, subsVars,
      problemVars, recheckVars, aliasVars, loadVars, sortVars, sanityVars>>

\* what the specification of one part leaves alone
notParseVars ==
    <<warnings, interVars, caseVars, treeVars, subsVars, problemVars, recheckVars,
      aliasVars, loadVars, sortVars, sanityVars>>
notInterVars ==
    <<warnings, parseVars, caseVars, treeVars, subsVars, problemVars, recheckVars,
      aliasVars, loadVars, sortVars, sanityVars>>
notCaseVars ==
    <<warnings, parseVars, interVars, treeVars, subsVars, problemVars, recheckVars,
      aliasVars, loadVars, sortVars, sanityVars>>
notTreeVars ==
    <<warnings, parseVars, interVars, caseVars, subsVars, problemVars, recheckVars,
      aliasVars, loadVars, sortVars, sanityVars>>
notSubsVars ==
    <<parseVars, interVars, caseVars, tr_cfg, tr_leaves, tr_groups, tr_left,
      agg_group, agg_out, problemVars, recheckVars, aliasVars, loadVars, sortVars, sanityVars>>
notProblemVars ==
    <<parseVars, interVars, caseVars, treeVars, subsVars, recheckVars, aliasVars,
      loadVars, sortVars, sanityVars>>
notRecheckVars ==
    <<parseVars, interVars, caseVars, treeVars, subsVars, problemVars, aliasVars,
      loadVars, sortVars, sanityVars>>
notAliasVars ==
    <<warnings, parseVars, interVars, treeVars, subsVars, problemVars, recheckVars,
      loadVars, sortVars, sanityVars>>
notLoadVars ==
    <<errors, warnings, parseVars, interVars, caseVars, treeVars, subsVars,
      problemVars, recheckVars, aliasVars, sortVars, sanityVars>>
notSortVars ==
    <<errors, warnings, parseVars, interVars, caseVars, treeVars, subsVars,
      problemVars, recheckVars, aliasVars, loadVars, sanityVars>>
notSanityVars ==
    <<parseVars, interVars, caseVars, treeVars, subsVars, problemVars,
      recheckVars, aliasVars, loadVars, sortVars>>

(***************************************************************************)
(* Bounds of the model.                                                    *)
(***************************************************************************)
Scale == 10            \* ticks per second
MaxScore == 2          \* scores written to score.txt are 0..MaxScore
MaxValidators == 2     \* output validators of a problem
MaxLimit == 2          \* time limits are 1..MaxLimit seconds
MaxLeaves == 3         \* test cases of a test-data tree

(***************************************************************************)
(* POSIX wait statuses (os.WIFEXITED and friends, signal numbers).         *)
(***************************************************************************)
SIGXCPU == 24
SIGUSR1 == 10

WIFEXITED(status) == status % 128 = 0
WEXITSTATUS(status) == (status \div 256) % 256
WIFSIGNALED(status) == (status % 128) \notin {0, 127}
WTERMSIG(status) == status % 128

ExitStatus(code) == code * 256

is_TLE(status, may_signal_with_usr1) ==
    /\ WIFSIGNALED(status)
    /\ \/ WTERMSIG(status) = SIGXCPU
       \/ may_signal_with_usr1 /\ WTERMSIG(status) = SIGUSR1

is_RTE(status) == ~WIFEXITED(status) \/ WEXITSTATUS(status) # 0

(***************************************************************************)
(* SubmissionResult.                                                       *)
(***************************************************************************)
None == "None"
NoScore == <<>>
NoCase == <<>>      \* a test case is the sequence of its path's components

SubmissionResult(verdict, score, reason, additional_info) ==
    [verdict |-> verdict, score |-> score, reason |-> reason,
     additional_info |-> additional_info,
     testcase |-> NoCase, runtime_testcase |-> NoCase,
     runtime |-> -Scale, ac_runtime |-> -Scale, ac_runtime_testcase |-> NoCase,
     validator_first |-> FALSE, sample_failures |-> <<>>]

NoResult == SubmissionResult(None, NoScore, None, None)

set_ac_runtime(r) ==
    IF r.verdict = "AC"
    THEN [r EXCEPT !.ac_runtime = r.runtime,
                   !.ac_runtime_testcase = r.runtime_testcase]
    ELSE r

(***************************************************************************)
(* OutputValidators._parse_validator_results.  The feedback directory fb   *)
(* is [score_file, score, feedback]: score_file is "absent", "ok" (its     *)
(* text parses as the float fb.score) or "bad" (float() raises); feedback *)
(* is what __get_feedback returns.                                         *)
(***************************************************************************)
parse_validator_results_score_check_on_42(custom_score, status, fb) ==
    IF ~WIFEXITED(status)
    THEN SubmissionResult("JE", NoScore, "validator crashed", fb.feedback)
    ELSE IF WEXITSTATUS(status) \notin {42, 43}
    THEN SubmissionResult("JE", NoScore, "validator exited with status", fb.feedback)
    ELSE IF WEXITSTATUS(status) = 43
    THEN SubmissionResult("WA", NoScore, None, fb.feedback)
    ELSE IF ~custom_score /\ fb.score_file # "absent"
    THEN SubmissionResult("JE", NoScore, "score.txt without custom scoring", None)
    ELSE IF custom_score /\ fb.score_file = "bad"
    THEN SubmissionResult("JE", NoScore, "failed to parse validator score", None)
    ELSE IF custom_score /\ fb.score_file = "absent"
    THEN SubmissionResult("JE", NoScore, "custom scoring but no score.txt", None)
    ELSE SubmissionResult("AC", IF custom_score THEN <<fb.score>> ELSE NoScore,
                          None, None)

parse_validator_results(custom_score, status, fb) ==
    IF ~custom_score /\ fb.score_file # "absent"
    THEN SubmissionResult("JE", NoScore, "score.txt without custom scoring", None)
    ELSE IF ~WIFEXITED(status)
    THEN SubmissionResult("JE", NoScore, "validator crashed", fb.feedback)
    ELSE IF WEXITSTATUS(status) \notin {42, 43}
    THEN SubmissionResult("JE", NoScore, "validator exited with status", fb.feedback)
    ELSE IF WEXITSTATUS(status) = 43
    THEN SubmissionResult("WA", NoScore, None, fb.feedback)
    ELSE IF custom_score /\ fb.score_file = "bad"
    THEN SubmissionResult("JE", NoScore, "failed to parse validator score", None)
    ELSE IF custom_score /\ fb.score_file = "absent"
    THEN SubmissionResult("JE", NoScore, "custom scoring but no score.txt", None)
    ELSE SubmissionResult("AC", IF custom_score THEN <<fb.score>> ELSE NoScore,
                          None, None)

(***************************************************************************)
(* OutputValidators.validate_interactive.  A coordinator run is            *)
(* [compiles, i_status, matches, val_status, sub_status, sub_runtime,      *)
(* first, fb]: whether the validator is there and compiles, the            *)
(* coordinator's own wait status, whether its output line matches          *)
(* interactive_output_re, the four fields read from the line and the       *)
(* feedback directory the validator left.  interactive_run is one          *)
(* iteration of the loop over the validators (lines 1409-1447): what res   *)
(* is after it and how many errors it reported on the error handler.       *)
(***************************************************************************)
interactive_verdict_submission_first(run, timelim, custom_score) ==
    LET val_JE == ~WIFEXITED(run.val_status)
                  \/ WEXITSTATUS(run.val_status) \notin {42, 43}
        val_WA == WIFEXITED(run.val_status) /\ WEXITSTATUS(run.val_status) = 43
        follow == val_JE \/ (val_WA /\ run.first = "validator")
        sub_runtime == IF follow /\ run.sub_runtime > timelim * Scale
                       THEN timelim * Scale ELSE run.sub_runtime
        res == IF is_TLE(run.sub_status, TRUE)
               THEN SubmissionResult("TLE", NoScore, None, None)
               ELSE IF is_RTE(run.sub_status)
               THEN SubmissionResult("RTE", NoScore, None, None)
               ELSE parse_validator_results(custom_score, run.val_status, run.fb)
    IN  [res EXCEPT !.runtime = sub_runtime,
                    !.validator_first = (run.first = "validator")]

interactive_verdict(run, timelim, custom_score) ==
    LET val_JE == ~WIFEXITED(run.val_status)
                  \/ WEXITSTATUS(run.val_status) \notin {42, 43}
        val_WA == WIFEXITED(run.val_status) /\ WEXITSTATUS(run.val_status) = 43
        follow == val_JE \/ (val_WA /\ run.first = "validator")
        sub_runtime == IF follow /\ run.sub_runtime > timelim * Scale
                       THEN timelim * Scale ELSE run.sub_runtime
        res == IF follow
               THEN parse_validator_results(custom_score, run.val_status, run.fb)
               ELSE IF is_TLE(run.sub_status, TRUE)
               THEN SubmissionResult("TLE", NoScore, None, None)
               ELSE IF is_RTE(run.sub_status)
               THEN SubmissionResult("RTE", NoScore, None, None)
               ELSE parse_validator_results(custom_score, run.val_status, run.fb)
    IN  [res EXCEPT !.runtime = sub_runtime,
                    !.validator_first = (run.first = "validator")]

interactive_run(res, run, timelim, custom_score) ==
    IF ~run.compiles THEN [res |-> res, errors |-> 0]
    ELSE IF is_RTE(run.i_status) THEN [res |-> res, errors |-> 1]
    ELSE IF ~run.matches THEN [res |-> res, errors |-> 1]
    ELSE [res |-> interactive_verdict(run, timelim, custom_score), errors |-> 0]

\* the loop leaves through "if res.verdict != 'AC': return res" (line 1451)
interactive_returns(run, res) == run.compiles /\ res.verdict # "AC"

\* steps counts the validators the loop went through
RECURSIVE interactive_loop(_, _, _, _, _, _)
interactive_loop(res, nerrors, steps, runs, timelim, custom_score) ==
    IF runs = <<>> THEN [res |-> res, errors |-> nerrors, steps |-> steps]
    ELSE LET it == interactive_run(res, Head(runs), timelim, custom_score) IN
         IF interactive_returns(Head(runs), it.res)
         THEN [res |-> it.res, errors |-> nerrors + it.errors,
               steps |-> steps + 1]
         ELSE interactive_loop(it.res, nerrors + it.errors, steps + 1,
                               Tail(runs), timelim, custom_score)

validate_interactive(tool, runs, timelim, custom_score) ==
    IF ~tool
    THEN [res |-> SubmissionResult("JE", NoScore, None, None), errors |-> 1,
          steps |-> 0]
    ELSE interactive_loop(SubmissionResult("JE", NoScore, None, None), 0, 0,
                          runs, timelim, custom_score)

(***************************************************************************)
(* OutputValidators.validate.  A validator run is [compiles, status, fb].  *)
(***************************************************************************)
RECURSIVE validate_loop(_, _, _)
validate_loop(res, vruns, custom_score) ==
    IF vruns = <<>> THEN res
    ELSE IF ~Head(vruns).compiles
    THEN validate_loop(res, Tail(vruns), custom_score)
    ELSE LET r == parse_validator_results(custom_score, Head(vruns).status,
                                          Head(vruns).fb) IN
         IF r.verdict # "AC" THEN r
         ELSE validate_loop(r, Tail(vruns), custom_score)

validate(vruns, custom_score) ==
    validate_loop(SubmissionResult("JE", NoScore, None, None), vruns, custom_score)

(***************************************************************************)
(* TestCase._run_submission_real on a case that is no alias and whose      *)
(* cache misses (lines 243-286).  exec is what the processes started by    *)
(* the call do: [status, runtime, vruns] the submission's wait status and  *)
(* wall time and the validator runs, [tool, iruns] the coordinator runs    *)
(* of an interactive problem.  The operator returns the three results,     *)
(* which of the four branches of lines 264-278 classified them (res_low    *)
(* is res_high is res in branch 1, res is res_high in branch 2, res_low    *)
(* is res in branches 3 and 4) and the errors reported on the way.         *)
(***************************************************************************)
\* run_high with a runtime equal to the high limit counted as exceeding it
run_high_inclusive(exec, timelim_high, cfg) ==
    IF cfg.is_interactive
    THEN validate_interactive(exec.tool, exec.iruns, timelim_high,
                              cfg.custom_scoring)
    ELSE LET r == IF is_TLE(exec.status, FALSE)
                     \/ exec.runtime >= timelim_high * Scale
                  THEN SubmissionResult("TLE", NoScore, None, None)
                  ELSE IF is_RTE(exec.status)
                  THEN SubmissionResult("RTE", NoScore, None, None)
                  ELSE validate(exec.vruns, cfg.custom_scoring)
         IN  [res |-> [r EXCEPT !.runtime = exec.runtime], errors |-> 0, steps |-> 0]

run_high(exec, timelim_high, cfg) ==
    IF cfg.is_interactive
    THEN validate_interactive(exec.tool, exec.iruns, timelim_high,
                              cfg.custom_scoring)
    ELSE LET r == IF is_TLE(exec.status, FALSE)
                     \/ exec.runtime > timelim_high * Scale
                  THEN SubmissionResult("TLE", NoScore, None, None)
                  ELSE IF is_RTE(exec.status)
                  THEN SubmissionResult("RTE", NoScore, None, None)
                  ELSE validate(exec.vruns, cfg.custom_scoring)
         IN  [res |-> [r EXCEPT !.runtime = exec.runtime], errors |-> 0, steps |-> 0]

classify_no_override(high, timelim, timelim_low) ==
    LET tle == [SubmissionResult("TLE", NoScore, None, None)
                    EXCEPT !.runtime = high.res.runtime]
    IN
    IF high.res.runtime <= timelim_low * Scale
    THEN [branch |-> 1, res |-> set_ac_runtime(high.res),
          res_low |-> set_ac_runtime(high.res),
          res_high |-> set_ac_runtime(high.res), errors |-> high.errors]
    ELSE IF high.res.runtime <= timelim * Scale
    THEN [branch |-> 2, res |-> set_ac_runtime(high.res), res_low |-> tle,
          res_high |-> set_ac_runtime(high.res), errors |-> high.errors]
    ELSE [branch |-> 4, res |-> tle, res_low |-> tle,
          res_high |-> set_ac_runtime(high.res), errors |-> high.errors]

\* classify with the comparison against timelim strict
classify_timelim_exclusive(high, timelim, timelim_low) ==
    LET tle == [SubmissionResult("TLE", NoScore, None, None)
                    EXCEPT !.runtime = high.res.runtime]
        wa  == [SubmissionResult("WA", NoScore, None, None)
                    EXCEPT !.validator_first = TRUE,
                           !.runtime = timelim_low * Scale]
    IN
    IF high.res.runtime <= timelim_low * Scale
    THEN [branch |-> 1, res |-> set_ac_runtime(high.res),
          res_low |-> set_ac_runtime(high.res),
          res_high |-> set_ac_runtime(high.res), errors |-> high.errors]
    ELSE IF high.res.runtime < timelim * Scale
    THEN [branch |-> 2, res |-> set_ac_runtime(high.res), res_low |-> tle,
          res_high |-> set_ac_runtime(high.res), errors |-> high.errors]
    ELSE IF high.res.validator_first /\ high.res.verdict = "WA"
    THEN [branch |-> 3, res |-> wa, res_low |-> wa,
          res_high |-> [high.res EXCEPT !.runtime = timelim_low * Scale],
          errors |-> high.errors]
    ELSE [branch |-> 4, res |-> tle, res_low |-> tle,
          res_high |-> set_ac_runtime(high.res), errors |-> high.errors]

\* classify with the comparison against timelim_low strict
classify_low_exclusive(high, timelim, timelim_low) ==
    LET tle == [SubmissionResult("TLE", NoScore, None, None)
                    EXCEPT !.runtime = high.res.runtime]
        wa  == [SubmissionResult("WA", NoScore, None, None)
                    EXCEPT !.validator_first = TRUE,
                           !.runtime = timelim_low * Scale]
    IN
    IF high.res.runtime < timelim_low * Scale
    THEN [branch |-> 1, res |-> set_ac_runtime(high.res),
          res_low |-> set_ac_runtime(high.res),
          res_high |-> set_ac_runtime(high.res), errors |-> high.errors]
    ELSE IF high.res.runtime <= timelim * Scale
    THEN [branch |-> 2, res |-> set_ac_runtime(high.res), res_low |-> tle,
          res_high |-> set_ac_runtime(high.res), errors |-> high.errors]
    ELSE IF high.res.validator_first /\ high.res.verdict = "WA"
    THEN [branch |-> 3, res |-> wa, res_low |-> wa,
          res_high |-> [high.res EXCEPT !.runtime = timelim_low * Scale],
          errors |-> high.errors]
    ELSE [branch |-> 4, res |-> tle, res_low |-> tle,
          res_high |-> set_ac_runtime(high.res), errors |-> high.errors]

\* classify with the low result of a run over timelim left as the high one
classify_low_keeps_high(high, timelim, timelim_low) ==
    LET tle == [SubmissionResult("TLE", NoScore, None, None)
                    EXCEPT !.runtime = high.res.runtime]
        wa  == [SubmissionResult("WA", NoScore, None, None)
                    EXCEPT !.validator_first = TRUE,
                           !.runtime = timelim_low * Scale]
    IN
    IF high.res.runtime <= timelim_low * Scale
    THEN [branch |-> 1, res |-> set_ac_runtime(high.res),
          res_low |-> set_ac_runtime(high.res),
          res_high |-> set_ac_runtime(high.res), errors |-> high.errors]
    ELSE IF high.res.runtime <= timelim * Scale
    THEN [branch |-> 2, res |-> set_ac_runtime(high.res), res_low |-> tle,
          res_high |-> set_ac_runtime(high.res), errors |-> high.errors]
    ELSE IF high.res.validator_first /\ high.res.verdict = "WA"
    THEN [branch |-> 3, res |-> wa, res_low |-> wa,
          res_high |-> [high.res EXCEPT !.runtime = timelim_low * Scale],
          errors |-> high.errors]
    ELSE [branch |-> 4, res |-> tle, res_low |-> set_ac_runtime(high.res),
          res_high |-> set_ac_runtime(high.res), errors |-> high.errors]

classify(high, timelim, timelim_low) ==
    LET tle == [SubmissionResult("TLE", NoScore, None, None)
                    EXCEPT !.runtime = high.res.runtime]
        wa  == [SubmissionResult("WA", NoScore, None, None)
                    EXCEPT !.validator_first = TRUE,
                           !.runtime = timelim_low * Scale]
    IN
    IF high.res.runtime <= timelim_low * Scale
    THEN [branch |-> 1, res |-> set_ac_runtime(high.res),
          res_low |-> set_ac_runtime(high.res),
          res_high |-> set_ac_runtime(high.res), errors |-> high.errors]
    ELSE IF high.res.runtime <= timelim * Scale
    THEN [branch |-> 2, res |-> set_ac_runtime(high.res), res_low |-> tle,
          res_high |-> set_ac_runtime(high.res), errors |-> high.errors]
    ELSE IF high.res.validator_first /\ high.res.verdict = "WA"
    THEN [branch |-> 3, res |-> wa, res_low |-> wa,
          res_high |-> [high.res EXCEPT !.runtime = timelim_low * Scale],
          errors |-> high.errors]
    ELSE [branch |-> 4, res |-> tle, res_low |-> tle,
          res_high |-> set_ac_runtime(high.res), errors |-> high.errors]

run_submission_real(exec, timelim, timelim_low, timelim_high, cfg) ==
    classify(run_high(exec, timelim_high, cfg), timelim, timelim_low)

(***************************************************************************)
(* TestCase._init_result_for_testcase and the part of                      *)
(* TestCase.run_submission after _run_submission_real (lines 224-232).     *)
(***************************************************************************)
\* the path relative to data/ starts with the letters "sample"
is_in_sample_group(case) == case[1] \in {"sample", "sample2"}

init_result_for_testcase(res, case, cfg, grading_score) ==
    [res EXCEPT !.testcase = case,
                !.runtime_testcase = case,
                !.score = IF res.score = NoScore /\ cfg.is_scoring
                          THEN (IF res.verdict = "AC" THEN <<grading_score>>
                                ELSE <<0>>)
                          ELSE res.score]

\* "res.sample_failures.append(res)" (line 230): copy.copy shares the list
\* with the object copied, so the entry shows in every result of the triple
\* that is the same object as res, and in the cache.
sample_failure(res) == [testcase |-> res.testcase, verdict |-> res.verdict]

shares_list_with_res(which, branch) ==
    \/ which = "res"
    \/ branch = 1
    \/ which = "res_high" /\ branch = 2
    \/ which = "res_low" /\ branch \in {3, 4}

append_sample_failure(r, which, branch, failure) ==
    IF shares_list_with_res(which, branch)
    THEN [r EXCEPT !.sample_failures = Append(@, failure)]
    ELSE r

\* TestCase.run_submission on a case that is no alias: the triple returned
\* and the cache entry left, from the cache entry found.
NoCache == [key |-> <<>>, branch |-> 0, res |-> NoResult, res_low |-> NoResult,
            res_high |-> NoResult]

\* lines 224-232, from what _run_submission_real returned
run_submission_results(real, reused, cache_key, case, cfg, grading_score) ==
    LET res == init_result_for_testcase(real.res, case, cfg, grading_score)
        res_low == init_result_for_testcase(real.res_low, case, cfg, grading_score)
        res_high == init_result_for_testcase(real.res_high, case, cfg, grading_score)
        fails == res.verdict # "AC" /\ is_in_sample_group(case)
        put(r, which) == IF fails
                         THEN append_sample_failure(r, which, real.branch,
                                                    sample_failure(res))
                         ELSE r
    IN  [res |-> put(res, "res"),
         res_low |-> put(res_low, "res_low"),
         res_high |-> put(res_high, "res_high"),
         reused |-> reused,
         errors |-> real.errors,
         cache |-> [key |-> cache_key, branch |-> real.branch,
                    res |-> put(real.res, "res"),
                    res_low |-> put(real.res_low, "res_low"),
                    res_high |-> put(real.res_high, "res_high")]]

\* a call that never finds its key in the cache
run_submission_uncached(case, sub, timelim, timelim_low, timelim_high, exec, cfg, grading_score, cache) ==
    run_submission_results(
        run_submission_real(exec, timelim, timelim_low, timelim_high, cfg),
        FALSE, <<sub, timelim, timelim_low, timelim_high>>, case, cfg,
        grading_score)

run_submission(case, sub, timelim, timelim_low, timelim_high, exec, cfg, grading_score, cache) ==
    IF cache.key = <<sub, timelim, timelim_low, timelim_high>>
    THEN run_submission_results(
             [branch |-> cache.branch, res |-> cache.res,
              res_low |-> cache.res_low, res_high |-> cache.res_high,
              errors |-> 0],
             TRUE, cache.key, case, cfg, grading_score)
    ELSE run_submission_results(
             run_submission_real(exec, timelim, timelim_low, timelim_high, cfg),
             FALSE, <<sub, timelim, timelim_low, timelim_high>>, case, cfg,
             grading_score)

(***************************************************************************)
(* TestCaseGroup.aggregate_results.  cfg is [is_scoring, aggregation,      *)
(* max_score]: the problem's is_scoring and the group's grading            *)
(* configuration; seen_oob is the group's _seen_oob_scores.  The operator  *)
(* returns [res, exc, errors, seen_oob]: the result, or the exception the  *)
(* call raises instead of returning ("none" when it returns), the errors   *)
(* it reported and the latch it leaves.                                    *)
(***************************************************************************)
SetMax(S) == CHOOSE x \in S : \A y \in S : y <= x

SetMin(S) == CHOOSE x \in S : \A y \in S : x <= y

RECURSIVE SeqSum(_)
SeqSum(s) == IF s = <<>> THEN 0 ELSE Head(s) + SeqSum(Tail(s))

RECURSIVE extend_sample_failures(_)
extend_sample_failures(sub_results) ==
    IF sub_results = <<>> THEN <<>>
    ELSE Head(sub_results).sample_failures
             \o extend_sample_failures(Tail(sub_results))

\* the first index at which f (a sequence of numbers) has the value v
FirstAt(f, v) == SetMin({i \in 1..Len(f) : f[i] = v})

\* lines 568-575: "if r.runtime > res.runtime" keeps the first maximum
aggregate_runtimes(sub_results) ==
    LET runtimes == [i \in 1..Len(sub_results) |-> sub_results[i].runtime]
        ac_runtimes == [i \in 1..Len(sub_results) |-> sub_results[i].ac_runtime]
        rt == SetMax({-Scale} \cup {runtimes[i] : i \in 1..Len(sub_results)})
        art == SetMax({-Scale} \cup {ac_runtimes[i] : i \in 1..Len(sub_results)})
    IN  [SubmissionResult(None, NoScore, None, None) EXCEPT
            !.runtime = rt,
            !.runtime_testcase =
                IF rt > -Scale
                THEN sub_results[FirstAt(runtimes, rt)].runtime_testcase
                ELSE NoCase,
            !.ac_runtime = art,
            !.ac_runtime_testcase =
                IF art > -Scale
                THEN sub_results[FirstAt(ac_runtimes, art)].ac_runtime_testcase
                ELSE NoCase,
            !.sample_failures = extend_sample_failures(sub_results)]

has_judge_error(sub_results) ==
    \E i \in 1..Len(sub_results) : sub_results[i].verdict = "JE"

\* line 577: next((r for r in sub_results if r.verdict == 'JE'), None)
judge_error(sub_results) ==
    sub_results[SetMin({i \in 1..Len(sub_results) :
                            sub_results[i].verdict = "JE"})]

\* ([r.verdict for r in sub_results if r.verdict != 'AC'] + ['AC'])[0]
first_non_AC_verdict(sub_results) ==
    IF \A i \in 1..Len(sub_results) : sub_results[i].verdict = "AC"
    THEN "AC"
    ELSE sub_results[SetMin({i \in 1..Len(sub_results) :
                                 sub_results[i].verdict # "AC"})].verdict

\* a rule that labels a list of accepted and rejected children PAC
sum_verdict_partial(sub_results) ==
    IF \A i \in 1..Len(sub_results) : sub_results[i].verdict = "AC"
    THEN "AC"
    ELSE IF \A i \in 1..Len(sub_results) :
                sub_results[i].verdict \notin {"AC", "PAC"}
    THEN sub_results[1].verdict
    ELSE "PAC"

sum_verdict_first_non_AC(sub_results) == first_non_AC_verdict(sub_results)

\* lines 597-602
sum_verdict(sub_results) ==
    IF \A i \in 1..Len(sub_results) : sub_results[i].verdict = "AC"
    THEN "AC"
    ELSE IF \A i \in 1..Len(sub_results) :
                sub_results[i].verdict \notin {"AC", "PAC"}
    THEN sub_results[1].verdict
    ELSE "AC"

child_scores(sub_results) ==
    [i \in 1..Len(sub_results) |-> sub_results[i].score[1]]

min_score_of_first_child(sub_results) == child_scores(sub_results)[1]

\* min() of an empty list raises ValueError
min_score(sub_results) ==
    SetMin({child_scores(sub_results)[i] : i \in 1..Len(sub_results)})

sum_score(sub_results) == SeqSum(child_scores(sub_results))

aggregate_returns(res, nerrors, seen_oob) ==
    [res |-> res, exc |-> "none", errors |-> nerrors, seen_oob |-> seen_oob]

aggregate_raises(exc, seen_oob) ==
    [res |-> NoResult, exc |-> exc, errors |-> 0, seen_oob |-> seen_oob]

\* a check that reports every score above max_score
check_max_score_unlatched(res, cfg, seen_oob) ==
    IF res.score # NoScore /\ ~(res.score[1] <= cfg.max_score)
    THEN aggregate_returns(res, 1, TRUE)
    ELSE aggregate_returns(res, 0, seen_oob)

\* lines 605-611
check_max_score(res, cfg, seen_oob) ==
    IF res.score # NoScore /\ ~(res.score[1] <= cfg.max_score) /\ ~seen_oob
    THEN aggregate_returns(res, 1, TRUE)
    ELSE aggregate_returns(res, 0, seen_oob)

\* lines 585-612, res as lines 566-575 and 585-587 left it.  Line 590 reads
\* the undefined name rews in the condition of its comprehension: the
\* condition is evaluated once per child, so the line raises NameError
\* unless sub_results is empty.
aggregate_grade(res, sub_results, cfg, seen_oob) ==
    IF ~cfg.is_scoring
    THEN IF sub_results = <<>>
         THEN aggregate_returns([res EXCEPT !.verdict = "AC"], 0, seen_oob)
         ELSE aggregate_raises("NameError", seen_oob)
    ELSE IF cfg.aggregation = "min"
    THEN IF sub_results = <<>>
         THEN aggregate_raises("ValueError", seen_oob)
         ELSE check_max_score(
                  [res EXCEPT !.verdict = first_non_AC_verdict(sub_results),
                              !.score = <<min_score(sub_results)>>],
                  cfg, seen_oob)
    ELSE check_max_score(
             [res EXCEPT !.verdict = sum_verdict(sub_results),
                         !.score = <<sum_score(sub_results)>>],
             cfg, seen_oob)

\* lines 577-587
aggregate_judged(res, sub_results, cfg, seen_oob) ==
    IF has_judge_error(sub_results)
    THEN aggregate_returns(
             [res EXCEPT !.verdict = judge_error(sub_results).verdict,
                         !.reason = judge_error(sub_results).reason,
                         !.additional_info = judge_error(sub_results).additional_info,
                         !.testcase = judge_error(sub_results).testcase],
             0, seen_oob)
    ELSE IF sub_results # <<>>
    THEN aggregate_grade(
             [res EXCEPT !.testcase = sub_results[Len(sub_results)].testcase,
                         !.additional_info =
                             sub_results[Len(sub_results)].additional_info],
             sub_results, cfg, seen_oob)
    ELSE aggregate_grade(res, sub_results, cfg, seen_oob)

aggregate_results(sub_results, cfg, seen_oob) ==
    aggregate_judged(aggregate_runtimes(sub_results), sub_results, cfg, seen_oob)

(***************************************************************************)
(* TestCaseGroup.run_submission, from the triples its children returned    *)
(* (every child matches the data filter; active and active_low stay        *)
(* True).  The three lists are aggregated in the order res, res_low,       *)
(* res_high; an exception raised by one call leaves the later ones out.    *)
(* The operator returns [res, res_low, res_high, exc, errors, seen_oob].   *)
(***************************************************************************)
triple_of(ret) == [res |-> ret.res, res_low |-> ret.res_low, res_high |-> ret.res_high]

subres_of(items, which) == [i \in 1..Len(items) |-> items[i][which]]

\* calls lists what the calls of aggregate_results made so far gave
group_raises(calls) ==
    [res |-> NoResult, res_low |-> NoResult, res_high |-> NoResult,
     exc |-> calls[Len(calls)].exc,
     errors |-> SeqSum([i \in 1..Len(calls) |-> calls[i].errors]),
     seen_oob |-> calls[Len(calls)].seen_oob, calls |-> calls]

\* line 562
group_aggregate_high(a, a_low, a_high) ==
    IF a_high.exc # "none"
    THEN group_raises(<<a, a_low, a_high>>)
    ELSE [res |-> a.res, res_low |-> a_low.res, res_high |-> a_high.res,
          exc |-> "none", errors |-> a.errors + a_low.errors + a_high.errors,
          seen_oob |-> a_high.seen_oob, calls |-> <<a, a_low, a_high>>]

\* line 561
group_aggregate_low(a, a_low, items, cfg) ==
    IF a_low.exc # "none"
    THEN group_raises(<<a, a_low>>)
    ELSE group_aggregate_high(
             a, a_low,
             aggregate_results(subres_of(items, "res_high"), cfg, a_low.seen_oob))

\* line 557
group_aggregate(a, items, cfg) ==
    IF a.exc # "none"
    THEN group_raises(<<a>>)
    ELSE group_aggregate_low(
             a, aggregate_results(subres_of(items, "res_low"), cfg, a.seen_oob),
             items, cfg)

group_run_submission(items, cfg, seen_oob) ==
    group_aggregate(aggregate_results(subres_of(items, "res"), cfg, seen_oob),
                    items, cfg)

(***************************************************************************)
(* The run of a submission over the whole tree, as check_submission        *)
(* starts it: the root (data) with its groups sample and secret and their  *)
(* test cases.  tree is [sample, secret], what the submission does on the  *)
(* cases of each group; tcfg is [is_scoring, grading], the grading         *)
(* configuration of the three groups; oob their _seen_oob_scores.          *)
(***************************************************************************)
\* config['grading'] of a group: NoGrading is None, the value of a pass-fail
\* problem whose testdata.yaml has no grading (lines 336-339); its fields are
\* read for scoring problems only
NoGrading == <<>>

grading_of(group, tcfg) ==
    IF tcfg.grading[group] = NoGrading
    THEN [score |-> 0, aggregation |-> None, max_score |-> 0]
    ELSE tcfg.grading[group][1]

group_items(group, execs, lim, tcfg) ==
    [i \in 1..Len(execs) |->
        triple_of(run_submission(<<group, i>>, "sub", lim[1], lim[2], lim[3],
                                 execs[i],
                                 [is_interactive |-> FALSE,
                                  is_scoring |-> tcfg.is_scoring,
                                  custom_scoring |-> FALSE],
                                 grading_of(group, tcfg).score, NoCache))]

group_grading(group, tcfg) ==
    [is_scoring |-> tcfg.is_scoring,
     aggregation |-> grading_of(group, tcfg).aggregation,
     max_score |-> grading_of(group, tcfg).max_score]

\* the exception of a child's run_submission leaves the root's (line 551)
testdata_raises(exc, nerrors, oob) ==
    [res |-> NoResult, res_low |-> NoResult, res_high |-> NoResult,
     exc |-> exc, errors |-> nerrors, seen_oob |-> oob]

testdata_returns(root_out, nerrors, oob) ==
    [res |-> root_out.res, res_low |-> root_out.res_low,
     res_high |-> root_out.res_high, exc |-> root_out.exc,
     errors |-> nerrors + root_out.errors,
     seen_oob |-> [oob EXCEPT !["root"] = root_out.seen_oob]]

testdata_after_secret(sample_out, secret_out, tcfg, oob) ==
    IF secret_out.exc # "none"
    THEN testdata_raises(secret_out.exc, sample_out.errors + secret_out.errors,
                         [oob EXCEPT !["sample"] = sample_out.seen_oob,
                                     !["secret"] = secret_out.seen_oob])
    ELSE testdata_returns(
             group_run_submission(<<triple_of(sample_out), triple_of(secret_out)>>,
                                  group_grading("root", tcfg), oob["root"]),
             sample_out.errors + secret_out.errors,
             [oob EXCEPT !["sample"] = sample_out.seen_oob,
                         !["secret"] = secret_out.seen_oob])

testdata_after_sample(sample_out, tree, lim, tcfg, oob) ==
    IF sample_out.exc # "none"
    THEN testdata_raises(sample_out.exc, sample_out.errors,
                         [oob EXCEPT !["sample"] = sample_out.seen_oob])
    ELSE testdata_after_secret(
             sample_out,
             group_run_submission(group_items("secret", tree.secret, lim, tcfg),
                                  group_grading("secret", tcfg), oob["secret"]),
             tcfg, oob)

testdata_run_submission(tree, lim, tcfg, oob) ==
    testdata_after_sample(
        group_run_submission(group_items("sample", tree.sample, lim, tcfg),
                             group_grading("sample", tcfg), oob["sample"]),
        tree, lim, tcfg, oob)

(***************************************************************************)
(* Submissions.check_submission (lines 1504-1539).  What the method logs   *)
(* is the sequence of its reports, in order; warning() counts a report as  *)
(* an error when consider_warnings_errors is set (lines 118-123).          *)
(***************************************************************************)
WarningReports == {"sample_failure", "sensitive", "partial_full", "not_full"}
ErrorReports == {"judgment"}

\* line 1547
fully_accepted(result, is_scoring, max_score) ==
    result.verdict = "AC" /\ (~is_scoring \/ result.score = <<max_score>>)

\* lines 1507-1513: the low limit is the real one unless the label is PAC
submission_limits(acr, limits) ==
    <<limits.timelim,
      IF acr = "PAC" THEN limits.timelim_margin_lo ELSE limits.timelim,
      limits.timelim_margin>>

\* lines 1517-1519
sample_report(acr, result) ==
    IF result.verdict = "AC" /\ acr = "AC" /\ result.sample_failures # <<>>
    THEN <<"sample_failure">> ELSE <<>>

\* lines 1521-1523
sensitive_report(result_low, result_high) ==
    IF result_low.verdict # result_high.verdict \/ result_low.score # result_high.score
    THEN <<"sensitive">> ELSE <<>>

\* lines 1525-1537; max_score is finite, so full_score_finite() holds
judgment_check(acr, result, result_high, is_scoring, max_score) ==
    IF acr = "PAC" /\ fully_accepted(result, is_scoring, max_score)
    THEN <<"partial_full">>
    ELSE IF result.verdict = (IF acr = "PAC" THEN "AC" ELSE acr)
    THEN <<"ok">> \o (IF acr = "AC" /\ ~fully_accepted(result, is_scoring, max_score)
                      THEN <<"not_full">> ELSE <<>>)
    ELSE IF /\ result_high.verdict = (IF acr = "PAC" THEN "AC" ELSE acr)
            /\ ~(acr = "PAC" /\ fully_accepted(result_high, is_scoring, max_score))
    THEN <<"ok_extra_time">>
    ELSE <<"judgment">>

\* get_max_score() reads config['grading']['max_score']: a TypeError when the
\* group has no grading (pass-fail, lines 336-339); lines 1525 and 1529-1531
\* call it for a PAC label and for an AC label that got AC
max_score_raises(acr, result, root_grading) ==
    /\ root_grading = NoGrading
    /\ acr = "PAC" \/ (acr = "AC" /\ result.verdict = "AC")

count_reports(reports, kinds) ==
    Cardinality({i \in 1..Len(reports) : reports[i] \in kinds})

check_submission_reports(ret, reports, exc, werror) ==
    [res |-> ret.res, res_low |-> ret.res_low, res_high |-> ret.res_high,
     reports |-> reports, exc |-> exc, seen_oob |-> ret.seen_oob,
     errors |-> ret.errors + count_reports(reports, ErrorReports)
                + (IF werror THEN count_reports(reports, WarningReports) ELSE 0),
     warnings |-> IF werror THEN 0 ELSE count_reports(reports, WarningReports)]

check_submission_returns(acr, ret, tcfg, werror) ==
    IF ret.exc # "none"
    THEN check_submission_reports(ret, <<>>, ret.exc, werror)
    ELSE IF max_score_raises(acr, ret.res, tcfg.grading["root"])
    THEN check_submission_reports(
             ret, sample_report(acr, ret.res) \o sensitive_report(ret.res_low, ret.res_high),
             "TypeError", werror)
    ELSE check_submission_reports(
             ret,
             sample_report(acr, ret.res)
             \o sensitive_report(ret.res_low, ret.res_high)
             \o judgment_check(acr, ret.res, ret.res_high, tcfg.is_scoring,
                               grading_of("root", tcfg).max_score),
             "none", werror)

check_submission(acr, limits, tree, tcfg, werror, oob) ==
    check_submission_returns(
        acr, testdata_run_submission(tree, submission_limits(acr, limits), tcfg, oob),
        tcfg, werror)

(***************************************************************************)
(* Submissions.check (lines 1549-1610): the limits.  A runtime is a        *)
(* rational num/den of seconds; int() truncates toward zero.               *)
(***************************************************************************)
DefaultTimelim == 300

\* an option that is not given: no fixed_timelim argument, no
\* time_for_AC_submissions key; a given value t is <<t>>
NoLimit == <<>>

py_int(num, den) == IF num >= 0 THEN num \div den ELSE -((-num) \div den)

int_without_half(num, den) == py_int(num, den)

\* int(0.5 + num/den)
int_half_plus(num, den) == py_int(den + 2 * num, 2 * den)

\* line 1596
ac_timelim(max_num, den, time_multiplier) ==
    SetMax({1, int_half_plus(max_num * time_multiplier, den)})

\* line 1597
ac_timelim_margin_lo(max_num, den, time_multiplier, safety_margin) ==
    SetMax({1, SetMin({int_half_plus(max_num * time_multiplier, den * safety_margin),
                       ac_timelim(max_num, den, time_multiplier) - 1})})

\* lines 1598-1599
ac_timelim_margin(max_num, den, time_multiplier, safety_margin) ==
    SetMax({ac_timelim(max_num, den, time_multiplier) + 1,
            int_half_plus(max_num * time_multiplier * safety_margin, den)})

\* lines 1593-1599
ac_limits(max_num, den, time_multiplier, safety_margin) ==
    [timelim |-> ac_timelim(max_num, den, time_multiplier),
     timelim_margin_lo |-> ac_timelim_margin_lo(max_num, den, time_multiplier, safety_margin),
     timelim_margin |-> ac_timelim_margin(max_num, den, time_multiplier, safety_margin)]

\* lines 1602-1605
fixed_limits(limits, fixed_timelim, safety_margin) ==
    IF fixed_timelim # NoLimit /\ fixed_timelim # <<limits.timelim>>
    THEN [limits EXCEPT !.timelim = fixed_timelim[1],
                        !.timelim_margin = fixed_timelim[1] * safety_margin]
    ELSE limits

\* lines 1558-1566
initial_limits(time_for_AC_submissions, fixed_timelim, safety_margin) ==
    [timelim |-> IF fixed_timelim # NoLimit THEN fixed_timelim[1]
                 ELSE IF time_for_AC_submissions # NoLimit
                 THEN time_for_AC_submissions[1]
                 ELSE DefaultTimelim,
     timelim_margin_lo |-> DefaultTimelim,
     timelim_margin |-> IF fixed_timelim # NoLimit
                        THEN fixed_timelim[1] * safety_margin
                        ELSE IF time_for_AC_submissions # NoLimit
                        THEN time_for_AC_submissions[1]
                        ELSE DefaultTimelim]

\* lines 1591-1605, the limits after a batch
batch_limits(acr, limits, runtimes, scfg) ==
    IF acr # "AC" THEN limits
    ELSE fixed_limits(
             IF Len(runtimes) > 0
             THEN ac_limits(SetMax({runtimes[i] : i \in 1..Len(runtimes)}), Scale,
                            scfg.time_multiplier, scfg.safety_margin)
             ELSE limits,
             scfg.fixed_timelim, scfg.safety_margin)

\* the directories of Submissions._VERDICTS, in order, and the required ones
VERDICTS == <<"AC", "PAC", "WA", "RTE", "TLE">>
RequiredVerdicts == {"AC"}

(***************************************************************************)
(* Inputs.                                                                 *)
(***************************************************************************)
ValidatorStatuses ==
    {ExitStatus(42), ExitStatus(43), ExitStatus(0), ExitStatus(1), 11, SIGXCPU}

FeedbackDirs ==
    [score_file : {"absent"}, score : {0}, feedback : {None, "feedback"}]
    \cup [score_file : {"bad"}, score : {0}, feedback : {None, "feedback"}]
    \cup [score_file : {"ok"}, score : 0..MaxScore, feedback : {None, "feedback"}]

Limits == 1..MaxLimit

\* each limit to the tick, and one tick more
Runtimes == {sec * Scale + d : sec \in Limits, d \in {0, 1}}

SubmissionStatuses == {ExitStatus(0), ExitStatus(1), SIGXCPU, SIGUSR1, 11}

InteractiveValidatorStatuses == {ExitStatus(42), ExitStatus(43), ExitStatus(1), 11}

NoFeedback == [score_file |-> "absent", score |-> 0, feedback |-> None]

CaseFeedbackDirs == {fb \in FeedbackDirs : fb.feedback = None /\ fb.score = 0}

NoRun ==
    [compiles |-> FALSE, i_status |-> ExitStatus(0), matches |-> FALSE,
     val_status |-> ExitStatus(0), sub_status |-> ExitStatus(0),
     sub_runtime |-> 0, first |-> "submission", fb |-> NoFeedback]

InteractiveRuns ==
    {NoRun}
    \cup {[NoRun EXCEPT !.compiles = TRUE, !.i_status = st] :
              st \in {ExitStatus(1), 11}}
    \cup {[NoRun EXCEPT !.compiles = TRUE]}
    \cup [compiles : {TRUE}, i_status : {ExitStatus(0)}, matches : {TRUE},
          val_status : InteractiveValidatorStatuses,
          sub_status : SubmissionStatuses, sub_runtime : Runtimes,
          first : {"validator", "submission"}, fb : CaseFeedbackDirs]

\* the sequences of at most n runs of which all but the last let the loop
\* over the validators go on
RunSeqs(n, going, all) ==
    {<<>>} \cup
    UNION {{p \o <<r>> : p \in [1..(k - 1) -> going], r \in all} : k \in 1..n}

CaseValidatorStatuses == {ExitStatus(42), ExitStatus(43), ExitStatus(1)}

\* the feedback directory of a validator that accepts: score.txt is there
\* exactly when the problem has custom scoring
AcceptedFeedback(custom_score) ==
    [NoFeedback EXCEPT !.score_file = IF custom_score THEN "ok" ELSE "absent"]

NoValidatorRun == [compiles |-> FALSE, status |-> ExitStatus(0), fb |-> NoFeedback]

ValidatorRuns ==
    {NoValidatorRun}
    \cup [compiles : {TRUE}, status : CaseValidatorStatuses, fb : CaseFeedbackDirs]

\* the validator runs of a call: validate reaches the last of them
ValidatorRunSeqs(custom_score) ==
    RunSeqs(MaxValidators,
            {NoValidatorRun,
             [compiles |-> TRUE, status |-> ExitStatus(42),
              fb |-> AcceptedFeedback(custom_score)]},
            ValidatorRuns)

CaseInteractiveRuns ==
    {r \in InteractiveRuns :
        /\ r.val_status \in CaseValidatorStatuses
        /\ r.sub_status \notin {SIGUSR1, 11}
        /\ r.i_status # 11}

\* the coordinator runs of a call: validate_interactive reaches the last
CaseInteractiveRunSeqs(custom_score) ==
    RunSeqs(MaxValidators,
            {NoRun,
             [NoRun EXCEPT !.compiles = TRUE, !.matches = TRUE,
                           !.val_status = ExitStatus(42),
                           !.sub_runtime = Scale,
                           !.fb = AcceptedFeedback(custom_score)]},
            CaseInteractiveRuns)

Execs(cfg) ==
    IF cfg.is_interactive
    THEN [tool : {TRUE}, iruns : CaseInteractiveRunSeqs(cfg.custom_scoring)]
         \cup [tool : {FALSE}, iruns : {<<>>}]
    ELSE [status : {ExitStatus(0)}, runtime : Runtimes,
          vruns : ValidatorRunSeqs(cfg.custom_scoring)]
         \cup [status : SubmissionStatuses \ {ExitStatus(0)}, runtime : Runtimes,
               vruns : {<<>>}]

\* (timelim, timelim_low, timelim_high), timelim <= timelim_high
LimitTriples ==
    {t \in Limits \X Limits \X Limits : t[1] <= t[3]}

Configs == [is_interactive : BOOLEAN, is_scoring : BOOLEAN, custom_scoring : BOOLEAN]

Cases == {<<"sample", "1">>, <<"secret", "1">>}

NoTriple == [res |-> NoResult, res_low |-> NoResult, res_high |-> NoResult]

ParseUnused == pv_args = <<>> /\ pv_res = NoResult

CaseUnused ==
    /\ config = <<>> /\ tc_call = <<>> /\ tc_ret = <<>> /\ result_cache = <<>>

InteractiveUnused ==
    /\ iv_args = <<>> /\ iv_i = 0 /\ iv_run = NoRun
    /\ iv_prev = NoResult /\ iv_res = NoResult

TreeRunUnused ==
    /\ tr_cfg = <<>> /\ tr_leaves = <<>> /\ tr_groups = <<>> /\ tr_left = 0
    /\ agg_group = "none" /\ agg_out = <<>>

TreeUnused == TreeRunUnused /\ seen_oob_scores = <<>>

SubsUnused ==
    /\ sb_cfg = <<>> /\ sb_subs = <<>> /\ sb_acr = 0 /\ sb_i = 0
    /\ sb_limits = <<>> /\ sb_runtimes = <<>> /\ sb_call = <<>>

ProblemUnused ==
    /\ pr_args = <<>> /\ pr_left = 0 /\ pr_shortname = None /\ pr_part = 0
    /\ bail_on_error = FALSE /\ logged_errors = 0 /\ total_errors = 0
    /\ exit_code = None

\* the variables of Submissions.check and of main in the other specifications
RecheckUnused ==
    /\ rc_args = <<>> /\ rc_package = <<>> /\ check_res = <<>>
    /\ rc_items = <<>> /\ rc_returns = <<>> /\ rc_pairs = <<>>

AliasUnused == al_log = <<>>

SanityUnused == sc_cfg = <<>> /\ sc_pos = 0 /\ sc_last = <<>>

SortUnused == ns_call = <<>> /\ ns_ret = <<>> /\ SanityUnused

LoadUnused ==
    /\ ld_yaml = <<>> /\ ld_pos = 0 /\ ld_dict = <<>> /\ ld_ref = <<>>
    /\ SortUnused

RestUnused ==
    /\ warnings = 0 /\ SubsUnused /\ ProblemUnused /\ RecheckUnused
    /\ AliasUnused /\ LoadUnused

(***************************************************************************)
(* Specification of one output-validator run: the arguments are drawn at   *)
(* Init, the action parses the validator's exit.                           *)
(***************************************************************************)
InitParse ==
    /\ pc = "call"
    /\ pv_args \in [custom_score : BOOLEAN, status : ValidatorStatuses,
                    fb : FeedbackDirs]
    /\ pv_res = NoResult
    /\ errors = 0
    /\ InteractiveUnused
    /\ CaseUnused
    /\ TreeUnused
    /\ RestUnused

ParseValidatorResults ==
    /\ pc = "call"
    /\ pc' = "done"
    /\ pv_res' = parse_validator_results(pv_args.custom_score, pv_args.status,
                                         pv_args.fb)
    /\ UNCHANGED <<pv_args, errors, notParseVars>>

NextParse == ParseValidatorResults

SpecParse == InitParse /\ [][NextParse]_vars

(***************************************************************************)
(* Specification of validate_interactive: one step per coordinator run.    *)
(***************************************************************************)
InitInteractive ==
    /\ pc = "call"
    /\ errors = 0
    /\ iv_args \in [timelim : Limits, custom_score : BOOLEAN, tool : BOOLEAN,
                    nvals : 0..MaxValidators]
    /\ iv_i = 0
    /\ iv_run = NoRun
    /\ iv_prev = NoResult
    /\ iv_res = NoResult
    /\ ParseUnused
    /\ CaseUnused
    /\ TreeUnused
    /\ RestUnused

\* lines 1396-1400
InteractiveBegin ==
    /\ pc = "call"
    /\ iv_res' = SubmissionResult("JE", NoScore, None, None)
    /\ IF iv_args.tool
       THEN pc' = "loop" /\ UNCHANGED errors
       ELSE pc' = "done" /\ errors' = errors + 1
    /\ UNCHANGED <<iv_args, iv_i, iv_run, iv_prev, notInterVars>>

\* lines 1408-1452, one validator
InteractiveValidator ==
    /\ pc = "loop"
    /\ iv_i < iv_args.nvals
    /\ \E run \in InteractiveRuns :
          LET it == interactive_run(iv_res, run, iv_args.timelim,
                                    iv_args.custom_score) IN
          /\ iv_run' = run
          /\ iv_prev' = iv_res
          /\ iv_res' = it.res
          /\ errors' = errors + it.errors
          /\ pc' = IF interactive_returns(run, it.res) THEN "done" ELSE "loop"
    /\ iv_i' = iv_i + 1
    /\ UNCHANGED <<iv_args, notInterVars>>

\* line 1454
InteractiveReturn ==
    /\ pc = "loop"
    /\ iv_i = iv_args.nvals
    /\ pc' = "done"
    /\ UNCHANGED <<errors, interVars, notInterVars>>

NextInteractive == InteractiveBegin \/ InteractiveValidator \/ InteractiveReturn

SpecInteractive == InitInteractive /\ [][NextInteractive]_vars

(***************************************************************************)
(* Specification of one TestCase.run_submission on a case that is no       *)
(* alias, from an empty cache.                                             *)
(***************************************************************************)
InitCase ==
    /\ pc = "call"
    /\ errors = 0
    /\ config \in Configs
    /\ tc_call = <<>>
    /\ tc_ret = NoTriple
    /\ result_cache = [c \in Cases |-> NoCache]
    /\ ParseUnused
    /\ InteractiveUnused
    /\ TreeUnused
    /\ RestUnused

RunSubmission ==
    /\ pc = "call"
    /\ \E case \in Cases, lim \in LimitTriples, grading_score \in {1},
          exec \in Execs(config) :
          \E ret \in {run_submission(case, "sub", lim[1], lim[2], lim[3], exec,
                                     config, grading_score, result_cache[case])} :
          /\ tc_call' = [case |-> case, timelim |-> lim[1],
                         timelim_low |-> lim[2], timelim_high |-> lim[3],
                         grading_score |-> grading_score, exec |-> exec]
          /\ tc_ret' = [res |-> ret.res, res_low |-> ret.res_low,
                        res_high |-> ret.res_high]
          /\ result_cache' = [result_cache EXCEPT ![case] = ret.cache]
          /\ errors' = errors + ret.errors
    /\ pc' = "done"
    /\ UNCHANGED <<config, notCaseVars>>

NextCase == RunSubmission

SpecCase == InitCase /\ [][NextCase]_vars

(***************************************************************************)
(* Specification of a run of one submission over the test-data tree: the   *)
(* root with its groups sample and secret, a group's test cases run one    *)
(* by one, then the group's lists aggregated, last the root's.             *)
(***************************************************************************)
\* (timelim, timelim_low, timelim_high) of the run
TreeLimits == {<<MaxLimit, 1, MaxLimit>>, <<1, 1, MaxLimit>>}

TreeConfigs ==
    [is_scoring : {FALSE}, aggregation : {"sum"}, root_aggregation : {"sum"},
     max_score : {MaxScore}, lim : TreeLimits]
    \cup [is_scoring : {TRUE}, aggregation : {"sum", "min"},
          root_aggregation : {"sum", "min"}, max_score : {MaxScore},
          lim : TreeLimits]

\* what a submission does on a test case of a problem with one output
\* validator: it answers in time, at the highest limit or later, or crashes
TreeExecs ==
    [status : {ExitStatus(0)}, runtime : {Scale, MaxLimit * Scale},
     vruns : {<<[compiles |-> TRUE, status |-> st, fb |-> NoFeedback]>> :
                  st \in CaseValidatorStatuses}]
    \cup {[status |-> ExitStatus(1), runtime |-> Scale, vruns |-> <<>>],
          [status |-> SIGXCPU, runtime |-> MaxLimit * Scale + 1, vruns |-> <<>>]}

Groups == {"sample", "secret"}

\* the grading configuration aggregate_results reads for a group
grading(group) ==
    [is_scoring |-> tr_cfg.is_scoring,
     aggregation |-> IF group = "root" THEN tr_cfg.root_aggregation
                     ELSE tr_cfg.aggregation,
     max_score |-> tr_cfg.max_score]

\* the children of a group
items_of(group) == IF group = "root" THEN tr_groups ELSE tr_leaves[group]

NoGroupResult ==
    [res |-> NoResult, res_low |-> NoResult, res_high |-> NoResult,
     exc |-> "none", errors |-> 0, seen_oob |-> FALSE, calls |-> <<>>]

InitTree ==
    /\ pc = "sample"
    /\ errors = 0
    /\ tr_cfg \in TreeConfigs
    /\ tr_leaves = [g \in Groups |-> <<>>]
    /\ tr_groups = <<>>
    /\ tr_left = MaxLeaves
    /\ agg_group = "none"
    /\ agg_out = NoGroupResult
    /\ seen_oob_scores = [g \in Groups \cup {"root"} |-> FALSE]
    /\ ParseUnused
    /\ InteractiveUnused
    /\ CaseUnused
    /\ RestUnused

\* lines 547-555, one child of the group: a test case
TreeRunCase ==
    /\ pc \in Groups
    /\ tr_left > 0
    /\ \E exec \in TreeExecs :
          tr_leaves' =
              [tr_leaves EXCEPT ![pc] =
                  Append(@, triple_of(run_submission(
                      <<pc, Len(tr_leaves[pc]) + 1>>, "sub", tr_cfg.lim[1],
                      tr_cfg.lim[2], tr_cfg.lim[3], exec,
                      [is_interactive |-> FALSE,
                       is_scoring |-> tr_cfg.is_scoring,
                       custom_scoring |-> FALSE],
                      1, NoCache)))]
    /\ tr_left' = tr_left - 1
    /\ UNCHANGED <<pc, errors, tr_cfg, tr_groups, agg_group, agg_out, seen_oob_scores,
                   notTreeVars>>

\* lines 557-562 of a group under the root, and lines 550-555 of the root
TreeGroupDone ==
    /\ pc \in Groups
    /\ \E out \in {group_run_submission(tr_leaves[pc], grading(pc), seen_oob_scores[pc])} :
          /\ agg_out' = out
          /\ errors' = errors + out.errors
          /\ seen_oob_scores' = [seen_oob_scores EXCEPT ![pc] = out.seen_oob]
          /\ IF out.exc # "none"
             THEN pc' = "raised" /\ UNCHANGED tr_groups
             ELSE /\ tr_groups' = Append(tr_groups, triple_of(out))
                  /\ pc' = IF pc = "sample" THEN "secret" ELSE "root"
    /\ agg_group' = pc
    /\ UNCHANGED <<tr_cfg, tr_leaves, tr_left, notTreeVars>>

\* lines 557-562 of the root
TreeRootDone ==
    /\ pc = "root"
    /\ \E out \in {group_run_submission(tr_groups, grading("root"), seen_oob_scores["root"])} :
          /\ agg_out' = out
          /\ errors' = errors + out.errors
          /\ seen_oob_scores' = [seen_oob_scores EXCEPT !["root"] = out.seen_oob]
          /\ pc' = IF out.exc # "none" THEN "raised" ELSE "done"
    /\ agg_group' = "root"
    /\ UNCHANGED <<tr_cfg, tr_leaves, tr_groups, tr_left, notTreeVars>>

NextTree == TreeRunCase \/ TreeGroupDone \/ TreeRootDone

SpecTree == InitTree /\ [][NextTree]_vars

(***************************************************************************)
(* Specification of Submissions.check: the programs of the five            *)
(* directories are there at Init; what a program does on the test cases is *)
(* drawn when check_submission runs it.                                    *)
(***************************************************************************)
MaxSubs == 2           \* programs under submissions/

\* time_multiplier and time_safety_margin of the problem's limits
TimeFactors == {<<2, 2>>, <<5, 1>>}

\* args.fixed_timelim and limits['time_for_AC_submissions']
LimitOptions ==
    {[fixed_timelim |-> NoLimit, time_for_AC_submissions |-> NoLimit],
     [fixed_timelim |-> <<1>>, time_for_AC_submissions |-> NoLimit],
     [fixed_timelim |-> NoLimit, time_for_AC_submissions |-> <<1>>]}

\* test cases of sample and of secret
TreeShapes == {[nsample |-> 0, nsecret |-> 0], [nsample |-> 1, nsecret |-> 1]}

SubsConfigs ==
    {[is_scoring |-> sc, werror |-> we, time_multiplier |-> tf[1],
      safety_margin |-> tf[2], fixed_timelim |-> lo.fixed_timelim,
      time_for_AC_submissions |-> lo.time_for_AC_submissions,
      nsample |-> sh.nsample, nsecret |-> sh.nsecret] :
        sc \in BOOLEAN, we \in BOOLEAN, tf \in TimeFactors, lo \in LimitOptions,
        sh \in TreeShapes}

\* lines 414-417 for the default aggregation sum
compute_max_score(score, ncases, group_max_scores) ==
    score * ncases + SeqSum(group_max_scores)

\* lines 336-339 and 356-375: the grading of the three groups of a package
\* in which the testdata.yaml of every group has a grading mapping of its
\* own that sets no key
testdata_config(is_scoring, nsample, nsecret) ==
    [is_scoring |-> is_scoring,
     grading |->
        IF ~is_scoring
        THEN [g \in Groups \cup {"root"} |-> NoGrading]
        ELSE [g \in Groups \cup {"root"} |->
                 <<[score |-> IF g = "sample" THEN 0 ELSE 1,
                    aggregation |-> "sum",
                    max_score |->
                        IF g = "sample" THEN compute_max_score(0, nsample, <<>>)
                        ELSE IF g = "secret" THEN compute_max_score(1, nsecret, <<>>)
                        ELSE compute_max_score(
                                 1, 0, <<compute_max_score(0, nsample, <<>>),
                                         compute_max_score(1, nsecret, <<>>)>>)]>>]]

\* runtimes of 1.4 and of 4.5 seconds
SubsRuntimes == {(14 * Scale) \div 10, (45 * Scale) \div 10}

\* what a program does on a test case: it answers and the validator accepts,
\* rejects (after 4.5 seconds) or crashes; it crashes; it runs into the
\* longest limit there is
SubsExecs ==
    [status : {ExitStatus(0)}, runtime : SubsRuntimes,
     vruns : {<<[compiles |-> TRUE, status |-> ExitStatus(42), fb |-> NoFeedback]>>}]
    \cup {[status |-> ExitStatus(0), runtime |-> (45 * Scale) \div 10,
           vruns |-> <<[compiles |-> TRUE, status |-> ExitStatus(43),
                        fb |-> NoFeedback]>>],
          [status |-> ExitStatus(0), runtime |-> (14 * Scale) \div 10,
           vruns |-> <<[compiles |-> TRUE, status |-> ExitStatus(1),
                        fb |-> NoFeedback]>>],
          [status |-> ExitStatus(1), runtime |-> (14 * Scale) \div 10, vruns |-> <<>>],
          [status |-> SIGXCPU, runtime |-> DefaultTimelim * Scale + 1, vruns |-> <<>>]}

\* on a sample case: the validator accepts or rejects
SampleExecs ==
    {e \in SubsExecs : e.vruns # <<>> /\ e.vruns[1].status = ExitStatus(42)
                                     /\ e.runtime = (14 * Scale) \div 10}
    \cup {e \in SubsExecs : e.vruns # <<>> /\ e.vruns[1].status = ExitStatus(43)}

SubsTrees(scfg) ==
    [sample : [1..scfg.nsample -> SampleExecs], secret : [1..scfg.nsecret -> SubsExecs]]

SubsCounts ==
    {c \in [{VERDICTS[k] : k \in 1..Len(VERDICTS)} -> 0..MaxSubs] :
        c["AC"] + c["PAC"] + c["WA"] + c["RTE"] + c["TLE"] <= MaxSubs}

NoLimits == [timelim |-> 0, timelim_margin_lo |-> 0, timelim_margin |-> 0]

NoCall == [acr |-> None, lim |-> <<0, 0, 0>>, out |-> <<>>]

InitSubs ==
    /\ pc = "check"
    /\ errors = 0
    /\ warnings = 0
    /\ sb_cfg \in SubsConfigs
    /\ sb_subs \in SubsCounts
    /\ sb_acr = 0
    /\ sb_i = 0
    /\ sb_limits = NoLimits
    /\ sb_runtimes = <<>>
    /\ sb_call = NoCall
    /\ seen_oob_scores = [g \in Groups \cup {"root"} |-> FALSE]
    /\ TreeRunUnused
    /\ ParseUnused
    /\ InteractiveUnused
    /\ CaseUnused
    /\ ProblemUnused
    /\ RecheckUnused
    /\ AliasUnused
    /\ LoadUnused

\* lines 1554-1566
SubsCheckBegin ==
    /\ pc = "check"
    /\ sb_limits' = initial_limits(sb_cfg.time_for_AC_submissions,
                                   sb_cfg.fixed_timelim, sb_cfg.safety_margin)
    /\ sb_acr' = 1
    /\ pc' = "batch_begin"
    /\ UNCHANGED <<errors, warnings, sb_cfg, sb_subs, sb_i, sb_runtimes, sb_call,
                   seen_oob_scores, notSubsVars>>

\* lines 1568-1573
SubsBatchBegin ==
    /\ pc = "batch_begin"
    /\ errors' = IF VERDICTS[sb_acr] \in RequiredVerdicts /\ sb_subs[VERDICTS[sb_acr]] = 0
                 THEN errors + 1 ELSE errors
    /\ sb_runtimes' = <<>>
    /\ sb_i' = 0
    /\ pc' = "batch"
    /\ UNCHANGED <<warnings, sb_cfg, sb_subs, sb_acr, sb_limits, sb_call,
                   seen_oob_scores, notSubsVars>>

\* lines 1579-1586: the program is too large or does not compile
SubsSkipSubmission ==
    /\ pc = "batch"
    /\ sb_i < sb_subs[VERDICTS[sb_acr]]
    /\ errors' = errors + 1
    /\ sb_i' = sb_i + 1
    /\ UNCHANGED <<pc, warnings, sb_cfg, sb_subs, sb_acr, sb_limits, sb_runtimes,
                   sb_call, seen_oob_scores, notSubsVars>>

\* lines 1588-1589
SubsCheckSubmission ==
    /\ pc = "batch"
    /\ sb_i < sb_subs[VERDICTS[sb_acr]]
    /\ \E tree \in SubsTrees(sb_cfg) :
       \E out \in {check_submission(
                       VERDICTS[sb_acr], sb_limits, tree,
                       testdata_config(sb_cfg.is_scoring, sb_cfg.nsample, sb_cfg.nsecret),
                       sb_cfg.werror, seen_oob_scores)} :
          /\ sb_call' = [acr |-> VERDICTS[sb_acr],
                         lim |-> submission_limits(VERDICTS[sb_acr], sb_limits),
                         out |-> out]
          /\ errors' = errors + out.errors
          /\ warnings' = warnings + out.warnings
          /\ seen_oob_scores' = out.seen_oob
          /\ IF out.exc # "none"
             THEN pc' = "raised" /\ UNCHANGED <<sb_i, sb_runtimes>>
             ELSE /\ sb_runtimes' = Append(sb_runtimes, out.res.runtime)
                  /\ sb_i' = sb_i + 1
                  /\ pc' = pc
    /\ UNCHANGED <<sb_cfg, sb_subs, sb_acr, sb_limits, notSubsVars>>

\* lines 1591-1608
SubsBatchEnd ==
    /\ pc = "batch"
    /\ sb_i = sb_subs[VERDICTS[sb_acr]]
    /\ sb_limits' = batch_limits(VERDICTS[sb_acr], sb_limits, sb_runtimes, sb_cfg)
    /\ IF sb_acr = Len(VERDICTS)
       THEN pc' = "checked" /\ UNCHANGED sb_acr
       ELSE pc' = "batch_begin" /\ sb_acr' = sb_acr + 1
    /\ UNCHANGED <<errors, warnings, sb_cfg, sb_subs, sb_i, sb_runtimes, sb_call,
                   seen_oob_scores, notSubsVars>>

NextSubs ==
    \/ SubsCheckBegin
    \/ SubsBatchBegin
    \/ SubsSkipSubmission
    \/ SubsCheckSubmission
    \/ SubsBatchEnd

SpecSubs == InitSubs /\ [][NextSubs]_vars

(***************************************************************************)
(* Specification of main (lines 1747-1762): it loads each problem          *)
(* (Problem.__enter__, lines 1620-1647), checks it (Problem.check, lines   *)
(* 1655-1685) and exits.  A report is a call of error() or of warning()    *)
(* (lines 111-123).                                                        *)
(***************************************************************************)
MaxProblems == 2       \* problem directories on the command line

PROBLEM_PARTS == <<"config", "statement", "validators", "generators", "data", "submissions">>

\* what the counters are after error(): (errors, logged errors)
error(nerrors, nlogged) == [errors |-> nerrors + 1, logged |-> nlogged + 1]

InitProblem ==
    /\ pc = "main"
    /\ errors = 0
    /\ warnings = 0
    /\ pr_args \in [bail_on_error : BOOLEAN, werror : BOOLEAN]
    /\ pr_left \in 1..MaxProblems
    /\ pr_shortname = None
    /\ pr_part = 0
    /\ bail_on_error = FALSE
    /\ logged_errors = 0
    /\ total_errors = 0
    /\ exit_code = None
    /\ ParseUnused
    /\ InteractiveUnused
    /\ CaseUnused
    /\ TreeUnused
    /\ SubsUnused
    /\ RecheckUnused
    /\ AliasUnused
    /\ LoadUnused

\* lines 1622-1625: the directory is not there
ProblemEnterNotFound ==
    /\ pc = "main"
    /\ pr_left > 0
    /\ errors' = error(errors, logged_errors).errors
    /\ logged_errors' = error(errors, logged_errors).logged
    /\ IF bail_on_error
       THEN pc' = "exited" /\ exit_code' = 1 /\ UNCHANGED pr_shortname
       ELSE pc' = "loaded" /\ pr_shortname' = None /\ UNCHANGED exit_code
    /\ UNCHANGED <<warnings, pr_args, pr_left, pr_part, bail_on_error, total_errors,
                   notProblemVars>>

\* lines 1627-1646: the parts are constructed; a testdata.yaml that does not
\* parse is an error of TestCaseGroup.__init__ (lines 319-328); the name of
\* the directory is the shortname
ProblemEnter ==
    /\ pc = "main"
    /\ pr_left > 0
    /\ \E malformed \in BOOLEAN, name \in {"name", "Name"} :
          IF malformed
          THEN /\ errors' = error(errors, logged_errors).errors
               /\ logged_errors' = error(errors, logged_errors).logged
               /\ IF bail_on_error
                  THEN pc' = "exited" /\ exit_code' = 1 /\ UNCHANGED pr_shortname
                  ELSE pc' = "loaded" /\ pr_shortname' = name /\ UNCHANGED exit_code
          ELSE /\ pc' = "loaded" /\ pr_shortname' = name
               /\ UNCHANGED <<errors, logged_errors, exit_code>>
    /\ UNCHANGED <<warnings, pr_args, pr_left, pr_part, bail_on_error, total_errors,
                   notProblemVars>>

\* lines 1656-1657, and lines 1757-1759 of main
ProblemCheckUnloaded ==
    /\ pc = "loaded"
    /\ pr_shortname = None
    /\ total_errors' = total_errors + 1
    /\ pr_left' = pr_left - 1
    /\ pc' = "main"
    /\ UNCHANGED <<errors, warnings, pr_args, pr_shortname, pr_part, bail_on_error,
                   logged_errors, exit_code, notProblemVars>>

\* lines 1659-1678
ProblemCheckBegin ==
    /\ pc = "loaded"
    /\ pr_shortname # None
    /\ warnings' = 0
    /\ bail_on_error' = pr_args.bail_on_error
    /\ pr_part' = 0
    /\ IF pr_shortname = "Name"
       THEN /\ errors' = error(0, logged_errors).errors
            /\ logged_errors' = error(0, logged_errors).logged
            /\ pc' = IF pr_args.bail_on_error THEN "checked" ELSE "parts"
       ELSE /\ errors' = 0
            /\ pc' = "parts"
            /\ UNCHANGED logged_errors
    /\ UNCHANGED <<pr_args, pr_left, pr_shortname, total_errors, exit_code,
                   notProblemVars>>

\* what the check of a part may report: nothing, an error, a warning; the
\* statement's check (lines 1062-1067) may call error() inside a try whose
\* handler catches every Exception and calls error() again
Reports(part) ==
    {"none", "error", "warning"}
    \cup (IF part = "statement" THEN {"error_in_try"} ELSE {})

\* lines 1681-1684, one part
ProblemCheckPart ==
    /\ pc = "parts"
    /\ pr_part < Len(PROBLEM_PARTS)
    /\ \E report \in Reports(PROBLEM_PARTS[pr_part + 1]) :
          IF report = "error_in_try" /\ bail_on_error
          THEN \* VerifyError is caught at line 1066; line 1067 raises the next
               /\ errors' = error(error(errors, logged_errors).errors,
                                  error(errors, logged_errors).logged).errors
               /\ logged_errors' = error(error(errors, logged_errors).errors,
                                         error(errors, logged_errors).logged).logged
               /\ pc' = "checked"
               /\ UNCHANGED warnings
          ELSE IF report \in {"error", "error_in_try"}
                  \/ (report = "warning" /\ pr_args.werror)
          THEN /\ errors' = error(errors, logged_errors).errors
               /\ logged_errors' = error(errors, logged_errors).logged
               /\ pc' = IF bail_on_error THEN "checked" ELSE pc
               /\ UNCHANGED warnings
          ELSE /\ warnings' = IF report = "warning" THEN warnings + 1 ELSE warnings
               /\ UNCHANGED <<pc, errors, logged_errors>>
    /\ pr_part' = pr_part + 1
    /\ UNCHANGED <<pr_args, pr_left, pr_shortname, bail_on_error, total_errors,
                   exit_code, notProblemVars>>

\* line 1681: the loop over the parts ends
ProblemCheckPartsDone ==
    /\ pc = "parts"
    /\ pr_part = Len(PROBLEM_PARTS)
    /\ pc' = "checked"
    /\ UNCHANGED <<errors, warnings, problemVars, notProblemVars>>

\* line 1685, and lines 1757-1759 of main
ProblemCheckReturn ==
    /\ pc = "checked"
    /\ total_errors' = total_errors + errors
    /\ pr_left' = pr_left - 1
    /\ pc' = "main"
    /\ UNCHANGED <<errors, warnings, pr_args, pr_shortname, pr_part, bail_on_error,
                   logged_errors, exit_code, notProblemVars>>

\* lines 1761-1762
MainExit ==
    /\ pc = "main"
    /\ pr_left = 0
    /\ exit_code' = IF total_errors > 0 THEN 1 ELSE 0
    /\ pc' = "exited"
    /\ UNCHANGED <<errors, warnings, pr_args, pr_left, pr_shortname, pr_part,
                   bail_on_error, logged_errors, total_errors, notProblemVars>>

NextProblem ==
    \/ ProblemEnterNotFound
    \/ ProblemEnter
    \/ ProblemCheckUnloaded
    \/ ProblemCheckBegin
    \/ ProblemCheckPart
    \/ ProblemCheckPartsDone
    \/ ProblemCheckReturn
    \/ MainExit

SpecProblem == InitProblem /\ [][NextProblem]_vars

(***************************************************************************)
(* Specification of a problem object whose check is called again: the      *)
(* package is loaded once, Problem.check (lines 1655-1685) is called       *)
(* MaxChecks times with the same arguments, and every component keeps the  *)
(* result of its check in _check_res (line 91).                            *)
(***************************************************************************)
MaxChecks == 2         \* calls of Problem.check on the problem object
MaxFindings == 2       \* components of the package whose check finds something

\* part_mapping (lines 1665-1672) for args.parts = PROBLEM_PARTS, item by item
Components ==
    <<"config", "statement", "attachments", "input_format_validators",
      "output_validators", "generators", "testdata", "submissions">>

ComponentSet == {Components[i] : i \in 1..Len(Components)}

\* what is known of the problem while it is checked: _check_res of every
\* component, the two counters, whether VerifyError is on its way up
\* lines 111-116
ProblemAspect_error(st, c, bail) ==
    [st EXCEPT !.check_res[c] = <<FALSE>>, !.errors = @ + 1, !.exc = bail]

\* lines 118-123
ProblemAspect_warning(st, c, werror, bail) ==
    IF werror
    THEN ProblemAspect_error(st, c, bail)
    ELSE [st EXCEPT !.warnings = @ + 1]

\* lines 167, 427, 691, 990, 1056, 1119, 1286, 1552: _check_res = True; the
\* check of the submissions then runs them, and a score out of bounds is an
\* error of the test data group (line 611)
check_start(st, c, oob, bail) ==
    IF c = "submissions" /\ oob
    THEN ProblemAspect_error([st EXCEPT !.check_res[c] = <<TRUE>>], "testdata", bail)
    ELSE [st EXCEPT !.check_res[c] = <<TRUE>>]

\* what the component then reports on itself
check_finding(st, c, finding, werror, bail) ==
    IF st.exc \/ finding = "none"
    THEN st
    ELSE IF finding = "warning"
    THEN ProblemAspect_warning(st, c, werror, bail)
    ELSE IF finding = "error_in_try" /\ bail
    THEN \* lines 1062-1067: the handler catches VerifyError and reports again
         ProblemAspect_error(ProblemAspect_error(st, c, bail), c, bail)
    ELSE ProblemAspect_error(st, c, bail)

\* the body of a component's check, after _check_res was found to be None
\* (lines 167-187, 427-538, 691-760, 990-1039, 1056-1075, 1119-1125,
\* 1175-1246, 1286-1332, 1552-1610)
check_body(st, c, finding, oob, werror, bail) ==
    IF finding = "deprecated"
    THEN \* lines 1175-1177: the warning comes before _check_res = True
         IF ProblemAspect_warning(st, c, werror, bail).exc
         THEN ProblemAspect_warning(st, c, werror, bail)
         ELSE [ProblemAspect_warning(st, c, werror, bail)
                  EXCEPT !.check_res[c] = <<TRUE>>]
    ELSE check_finding(check_start(st, c, oob, bail), c, finding, werror, bail)

\* a check that goes through its body at every call
check_without_cache(st, c, finding, oob, werror, bail) ==
    check_body(st, c, finding, oob, werror, bail)

\* check of a component (lines 164-166, 424-426, 688-690, 987-989, 1053-1055,
\* 1116-1118, 1172-1174, 1283-1285, 1549-1551): a result that is there is
\* returned as it is
check(st, c, finding, oob, werror, bail) ==
    IF st.check_res[c] # <<>>
    THEN st
    ELSE check_body(st, c, finding, oob, werror, bail)

\* lines 1659-1660 of Problem.check
check_counters_kept(nerrors, nwarnings) ==
    [errors |-> nerrors, warnings |-> nwarnings]

check_counters(nerrors, nwarnings) ==
    [errors |-> 0, warnings |-> 0]

\* what the check of a component may find
Findings(c) ==
    {"none", "error", "warning"}
    \cup (IF c = "statement" THEN {"error_in_try"} ELSE {})
    \cup (IF c = "input_format_validators" THEN {"deprecated"} ELSE {})

FindingKinds == UNION {Findings(c) : c \in ComponentSet}

NoFindings == [c \in ComponentSet |-> "none"]

\* the packages with at most n components that find something
RECURSIVE Packages(_)
Packages(n) ==
    IF n = 0
    THEN {NoFindings}
    ELSE Packages(n - 1)
         \cup {[f EXCEPT ![c] = k] :
                 f \in Packages(n - 1), c \in ComponentSet, k \in FindingKinds \ {"none"}}

CheckedPackages ==
    {f \in Packages(MaxFindings) : \A c \in ComponentSet : f[c] \in Findings(c)}

InitRecheck ==
    /\ pc = "idle"
    /\ errors = 0
    /\ warnings = 0
    /\ rc_args \in [bail_on_error : BOOLEAN, werror : BOOLEAN]
    /\ rc_package \in [shortname : {"name", "Name"}, findings : CheckedPackages,
                       oob : BOOLEAN]
    /\ check_res = [c \in ComponentSet |-> <<>>]
    /\ rc_items = <<>>
    /\ rc_returns = [c \in ComponentSet |-> <<>>]
    /\ rc_pairs = <<>>
    /\ ParseUnused
    /\ InteractiveUnused
    /\ CaseUnused
    /\ TreeUnused
    /\ SubsUnused
    /\ ProblemUnused
    /\ AliasUnused
    /\ LoadUnused

\* lines 1659-1678: the counters start again, the shortname is checked
RecheckBegin ==
    /\ pc = "idle"
    /\ Len(rc_pairs) < MaxChecks
    /\ IF rc_package.shortname = "Name"
       THEN /\ errors' = check_counters(errors, warnings).errors + 1
            /\ pc' = IF rc_args.bail_on_error THEN "unwound" ELSE "items"
       ELSE /\ errors' = check_counters(errors, warnings).errors
            /\ pc' = "items"
    /\ warnings' = check_counters(errors, warnings).warnings
    /\ rc_items' = Components
    /\ UNCHANGED <<rc_args, rc_package, check_res, rc_returns, rc_pairs, notRecheckVars>>

\* what item.check(args) of line 1684 leaves behind
RecheckItemDone(c, st) ==
    /\ check_res' = st.check_res
    /\ errors' = st.errors
    /\ warnings' = st.warnings
    /\ IF st.exc
       THEN pc' = "unwound" /\ UNCHANGED rc_returns
       ELSE /\ pc' = pc
            /\ rc_returns' = [rc_returns EXCEPT ![c] = Append(@, st.check_res[c][1])]

\* lines 1681-1684, one item
RecheckItem ==
    /\ pc = "items"
    /\ rc_items # <<>>
    /\ \E st \in {check([check_res |-> check_res, errors |-> errors,
                         warnings |-> warnings, exc |-> FALSE],
                        Head(rc_items), rc_package.findings[Head(rc_items)],
                        rc_package.oob, rc_args.werror, rc_args.bail_on_error)} :
          RecheckItemDone(Head(rc_items), st)
    /\ rc_items' = Tail(rc_items)
    /\ UNCHANGED <<rc_args, rc_package, rc_pairs, notRecheckVars>>

\* lines 1682-1685: the loop ended or VerifyError was caught
RecheckReturn ==
    /\ \/ pc = "items" /\ rc_items = <<>>
       \/ pc = "unwound"
    /\ rc_pairs' = Append(rc_pairs, <<errors, warnings>>)
    /\ pc' = "idle"
    /\ UNCHANGED <<errors, warnings, rc_args, rc_package, check_res, rc_items,
                   rc_returns, notRecheckVars>>

NextRecheck == RecheckBegin \/ RecheckItem \/ RecheckReturn

SpecRecheck == InitRecheck /\ [][NextRecheck]_vars

(***************************************************************************)
(* Specification of the calls of TestCase.run_submission (lines 222-232)   *)
(* on a test case and on a reuse alias of it: sample/1.in is a symbolic    *)
(* link to secret/1.in (set_symlinks, lines 195-200).  Every call draws    *)
(* its key and what the processes do if the call runs them.                *)
(***************************************************************************)
MaxCalls == 3          \* calls of run_submission

AliasCases == {<<"sample", "1">>, <<"secret", "1">>}

\* TestCase.reuse_result_from (lines 195-200)
reuse_result_from(case) ==
    IF case = <<"sample", "1">> THEN <<"secret", "1">> ELSE NoCase

\* a case that keeps a cache of its own
cache_owner_self(case) == case

\* lines 235-236: the case whose _result_cache a call reads and writes
cache_owner(case) ==
    IF reuse_result_from(case) # NoCase THEN reuse_result_from(case) ELSE case

\* the problems: not interactive; grading.score of the groups sample and
\* secret as TestCaseGroup.__init__ leaves them (lines 356-375) or as
\* testdata.yaml sets them
AliasConfigs ==
    {cfg \in [is_interactive : {FALSE}, is_scoring : BOOLEAN,
              custom_scoring : BOOLEAN,
              grading_score : {[sample |-> 0, secret |-> 1],
                               [sample |-> 1, secret |-> 1]}] :
        cfg.custom_scoring => cfg.is_scoring}

AliasLimits == {<<1, 1, 2>>, <<2, 1, 2>>}

\* the submission exits with 0 after 1.0 s or 1.1 s, the validator accepts
\* or rejects its output
AliasExecs(cfg) ==
    [status : {ExitStatus(0)}, runtime : {Scale, Scale + 1},
     vruns : {<<[compiles |-> TRUE, status |-> st,
                 fb |-> AcceptedFeedback(cfg.custom_scoring)]>> :
                 st \in {ExitStatus(42), ExitStatus(43)}}]

InitAlias ==
    /\ pc = "call"
    /\ errors = 0
    /\ config \in AliasConfigs
    /\ tc_call = <<>>
    /\ tc_ret = NoTriple
    /\ result_cache = [c \in AliasCases |-> NoCache]
    /\ al_log = <<>>
    /\ ParseUnused
    /\ InteractiveUnused
    /\ TreeUnused
    /\ warnings = 0 /\ SubsUnused /\ ProblemUnused /\ RecheckUnused
    /\ LoadUnused

AliasRunSubmission ==
    /\ pc = "call"
    /\ Len(al_log) < MaxCalls
    /\ \E case \in AliasCases, lim \in AliasLimits, exec \in AliasExecs(config) :
          \E ret \in {run_submission(case, "sub", lim[1], lim[2], lim[3], exec,
                                     config, config.grading_score[case[1]],
                                     result_cache[cache_owner(case)])} :
          /\ tc_call' = [case |-> case, timelim |-> lim[1],
                         timelim_low |-> lim[2], timelim_high |-> lim[3],
                         grading_score |-> config.grading_score[case[1]],
                         exec |-> exec]
          /\ tc_ret' = [res |-> ret.res, res_low |-> ret.res_low,
                        res_high |-> ret.res_high]
          /\ result_cache' = [result_cache EXCEPT ![cache_owner(case)] = ret.cache]
          /\ errors' = errors + ret.errors
          /\ al_log' = Append(al_log, [case |-> case, key |-> <<"sub", lim>>,
                                       res |-> ret.res, res_low |-> ret.res_low,
                                       res_high |-> ret.res_high,
                                       reused |-> ret.reused])
    /\ UNCHANGED <<pc, config, notAliasVars>>

NextAlias == AliasRunSubmission

SpecAlias == InitAlias /\ [][NextAlias]_vars

(***************************************************************************)
(* Specification of the loading of the test data of a scoring problem:     *)
(* the constructors of the groups data, data/sample, data/secret and       *)
(* data/secret/g1 (TestCaseGroup.__init__, lines 310-378).  A constructor  *)
(* first settles its config (lines 319-343), then constructs the groups    *)
(* below it in sorted order (lines 345-354), then sets the grading         *)
(* defaults (lines 356-375).  config['grading'] is a reference to a        *)
(* mapping: the one of the group's own testdata.yaml, or the one the       *)
(* parent's config refers to (lines 331-334).  data/testdata.yaml has the  *)
(* key grading; data/sample and data/secret/g1 hold one test case each.    *)
(***************************************************************************)
LoadGroups == {"data", "sample", "secret", "g1"}

\* TestCaseGroup._parent
parent_of(g) == IF g = "g1" THEN "secret" ELSE "data"

\* lines 345-354 unrolled: the constructors begin and end in this order
LoadOrder ==
    <<[at |-> "begin", group |-> "data"],
      [at |-> "begin", group |-> "sample"], [at |-> "end", group |-> "sample"],
      [at |-> "begin", group |-> "secret"],
      [at |-> "begin", group |-> "g1"], [at |-> "end", group |-> "g1"],
      [at |-> "end", group |-> "secret"],
      [at |-> "end", group |-> "data"]>>

\* a mapping under the key grading: a key that is not set is <<>>
YamlGradings ==
    [score : {<<>>, <<MaxScore>>}, aggregation : {<<>>, <<"sum">>, <<"min">>},
     max_score : {<<>>}]

\* get_testcases and get_subgroups of the groups of the package
testcases_of(g) == IF g \in {"sample", "g1"} THEN 1 ELSE 0

subgroups_of(g) ==
    IF g = "data" THEN <<"sample", "secret">>
    ELSE IF g = "secret" THEN <<"g1">>
    ELSE <<>>

RECURSIVE SeqMin(_)
SeqMin(seq) ==
    IF Len(seq) = 1 THEN seq[1]
    ELSE IF seq[1] <= SeqMin(Tail(seq)) THEN seq[1] ELSE SeqMin(Tail(seq))

\* lines 414-419, for a group with a test case or a group below it
TestCaseGroup_compute_max_score(g, dicts, refs) ==
    LET scores ==
            [k \in 1..(testcases_of(g) + Len(subgroups_of(g))) |->
                IF k <= testcases_of(g)
                THEN dicts[refs[g]].score[1]
                ELSE dicts[refs[subgroups_of(g)[k - testcases_of(g)]]].max_score[1]]
    IN  IF dicts[refs[g]].aggregation = <<"sum">> THEN SeqSum(scores)
        ELSE SeqMin(scores)

\* the defaults of lines 358-371 for the position of the group
default_grading(g) ==
    IF g \in {"data", "secret"} THEN [score |-> 1, aggregation |-> "sum"]
    ELSE IF g = "sample" THEN [score |-> 0, aggregation |-> "sum"]
    ELSE [score |-> 1, aggregation |-> "min"]

\* lines 357-371: the keys the mapping lacks are set in the mapping
set_default_grading(d, g) ==
    [d EXCEPT !.score = IF @ = <<>> THEN <<default_grading(g).score>> ELSE @,
              !.aggregation = IF @ = <<>> THEN <<default_grading(g).aggregation>>
                              ELSE @]

InitLoad ==
    /\ pc = "load"
    /\ errors = 0
    /\ warnings = 0
    /\ ld_yaml \in {y \in [LoadGroups -> YamlGradings \cup {NoGrading}] :
                       y["data"] # NoGrading}
    /\ ld_pos = 0
    /\ ld_dict = [g \in LoadGroups |-> NoGrading]
    /\ ld_ref = [g \in LoadGroups |-> None]
    /\ ParseUnused
    /\ InteractiveUnused
    /\ CaseUnused
    /\ TreeUnused
    /\ SubsUnused
    /\ ProblemUnused
    /\ RecheckUnused
    /\ AliasUnused
    /\ SortUnused

\* lines 319-343 of the constructor of a group
LoadBegin(g) ==
    /\ IF ld_yaml[g] # NoGrading
       THEN /\ ld_dict' = [ld_dict EXCEPT ![g] = ld_yaml[g]]
            /\ ld_ref' = [ld_ref EXCEPT ![g] = g]
       ELSE /\ ld_ref' = [ld_ref EXCEPT ![g] = ld_ref[parent_of(g)]]
            /\ UNCHANGED ld_dict

\* lines 356-375 of the constructor of a group
LoadEnd(g) ==
    /\ \E d \in {set_default_grading(ld_dict[ld_ref[g]], g)} :
          ld_dict' =
              [ld_dict EXCEPT ![ld_ref[g]] =
                  IF d.max_score = <<>>
                  THEN [d EXCEPT !.max_score =
                           <<TestCaseGroup_compute_max_score(
                                 g, [ld_dict EXCEPT ![ld_ref[g]] = d], ld_ref)>>]
                  ELSE d]
    /\ UNCHANGED ld_ref

LoadGroupBegin ==
    /\ pc = "load"
    /\ ld_pos < Len(LoadOrder)
    /\ LoadOrder[ld_pos + 1].at = "begin"
    /\ LoadBegin(LoadOrder[ld_pos + 1].group)
    /\ ld_pos' = ld_pos + 1
    /\ UNCHANGED <<pc, ld_yaml, notLoadVars>>

LoadGroupEnd ==
    /\ pc = "load"
    /\ ld_pos < Len(LoadOrder)
    /\ LoadOrder[ld_pos + 1].at = "end"
    /\ LoadEnd(LoadOrder[ld_pos + 1].group)
    /\ ld_pos' = ld_pos + 1
    /\ pc' = IF ld_pos + 1 = Len(LoadOrder) THEN "loaded" ELSE pc
    /\ UNCHANGED <<ld_yaml, notLoadVars>>

NextLoad == LoadGroupBegin \/ LoadGroupEnd

SpecLoad == InitLoad /\ [][NextLoad]_vars

(***************************************************************************)
(* Specification of one call of natural_sort_le (lines 501-522), the       *)
(* comparison TestCaseGroup.check applies to the names of the groups.  A   *)
(* string is the sequence of the codes of its characters, an index counts  *)
(* from 0 as in the code, and the call returns a boolean or raises.        *)
(***************************************************************************)
MaxLen == 4            \* characters of a group name

\* ord of the characters of the names: '0', '1' and 'a'
NameChars == {48, 49, 97}

Names == UNION {[1..n -> NameChars] : n \in 0..MaxLen}

\* s[i] of the code
CharAt(s, i) == s[i + 1]

\* ord('0') <= ord(c) <= ord('9')
is_digit(c) == 48 <= c /\ c <= 57

\* lines 505-510: (ret, i) after the loop, from ret and i
RECURSIVE parse_num(_, _, _)
parse_num(s, i, ret) ==
    IF is_digit(CharAt(s, i))
    THEN parse_num(s, i + 1, ret * 10 + CharAt(s, i) - 48)
    ELSE <<ret, i>>

\* lines 511-522: the loop, a and b ending with '\0'
RECURSIVE natural_sort_loop(_, _, _, _)
natural_sort_loop(a, b, i, j) ==
    IF ~(i < Len(a) /\ j < Len(b))
    THEN [exc |-> "none", ret |-> TRUE]
    ELSE IF is_digit(CharAt(a, i)) /\ i >= Len(b)
    THEN \* line 512 reads b[i]
         [exc |-> "IndexError", ret |-> FALSE]
    ELSE IF is_digit(CharAt(a, i)) /\ is_digit(CharAt(b, i))
    THEN IF parse_num(a, i, 0)[1] = parse_num(b, j, 0)[1]
         THEN natural_sort_loop(a, b, parse_num(a, i, 0)[2], parse_num(b, j, 0)[2])
         ELSE [exc |-> "none", ret |-> parse_num(a, i, 0)[1] < parse_num(b, j, 0)[1]]
    ELSE IF CharAt(a, i) = CharAt(b, j)
    THEN natural_sort_loop(a, b, i + 1, j + 1)
    ELSE [exc |-> "none", ret |-> CharAt(a, i) < CharAt(b, j)]

\* lines 501-522
natural_sort_le(a, b) == natural_sort_loop(a \o <<0>>, b \o <<0>>, 0, 0)

InitSort ==
    /\ pc = "call"
    /\ errors = 0
    /\ warnings = 0
    /\ ns_call \in [a : Names, b : Names]
    /\ ns_ret = <<>>
    /\ ParseUnused
    /\ InteractiveUnused
    /\ CaseUnused
    /\ TreeUnused
    /\ SubsUnused
    /\ ProblemUnused
    /\ RecheckUnused
    /\ AliasUnused
    /\ ld_yaml = <<>> /\ ld_pos = 0 /\ ld_dict = <<>> /\ ld_ref = <<>>
    /\ SanityUnused

NaturalSortLe ==
    /\ pc = "call"
    /\ ns_ret' = natural_sort_le(ns_call.a, ns_call.b)
    /\ pc' = "done"
    /\ UNCHANGED <<ns_call, notSortVars>>

NextSort == NaturalSortLe

SpecSort == InitSort /\ [][NextSort]_vars

(***************************************************************************)
(* Specification of InputFormatValidators.check (lines 1172-1246): the     *)
(* validators are compiled, then every junk case of _JUNK_CASES (lines     *)
(* 1131-1136) and every modification of _JUNK_MODIFICATIONS (lines         *)
(* 1142-1148) is given to them, one case or modification a step.  What a   *)
(* validator exits with is drawn when it is run.                           *)
(***************************************************************************)
\* len(_JUNK_CASES) and len(_JUNK_CASES) + len(_JUNK_MODIFICATIONS)
JunkCases == 4
JunkSteps == 9

\* the packages: one or two validators, the flags of the groups that hold
\* test cases (collect_flags, lines 1193-1198), the test cases of the tree
SanityConfigs ==
    {c \in [nvals : 0..2, nflags : 0..2, ncases : 0..2,
            werror : BOOLEAN, bail_on_error : BOOLEAN] :
        /\ c.nflags <= c.ncases
        /\ c.nflags = 0 <=> c.ncases = 0
        /\ c.nvals * c.nflags <= 2}

SanityStatuses == {ExitStatus(42), ExitStatus(43)}

\* a loop that ends at the first validator that exits with 42
RECURSIVE validators_loop_any(_, _, _)
validators_loop_any(statuses, v, nvals) ==
    IF v > nvals THEN "break"
    ELSE IF WEXITSTATUS(statuses[v]) = 42 THEN "else"
    ELSE validators_loop_any(statuses, v + 1, nvals)

\* lines 1208-1211: "break" at the first validator that does not exit with
\* 42, "else" if the loop over the validators ends
RECURSIVE validators_loop(_, _, _)
validators_loop(statuses, v, nvals) ==
    IF v > nvals THEN "else"
    ELSE IF WEXITSTATUS(statuses[v]) # 42 THEN "break"
    ELSE validators_loop(statuses, v + 1, nvals)

\* lines 1206-1213: the flags, in the order of the loop, for which the junk
\* case is warned of
RECURSIVE junk_warnings(_, _, _, _)
junk_warnings(statuses, f, nflags, nvals) ==
    IF f > nflags THEN <<>>
    ELSE (IF validators_loop(statuses[f], 1, nvals) = "else" THEN <<f>> ELSE <<>>)
         \o junk_warnings(statuses, f + 1, nflags, nvals)

\* lines 1225-1231: False is returned at the first validator, under any of
\* the flags, that does not exit with 42
RECURSIVE flags_loop(_, _, _, _)
flags_loop(statuses, f, nflags, nvals) ==
    IF f > nflags THEN TRUE
    ELSE IF validators_loop(statuses[f], 1, nvals) = "break" THEN FALSE
    ELSE flags_loop(statuses, f + 1, nflags, nvals)

\* lines 1215-1238, from test case t on
RECURSIVE modified_input_validates(_, _, _, _)
modified_input_validates(applicable, statuses, t, cfg) ==
    IF t > cfg.ncases THEN FALSE
    ELSE IF ~applicable[t]
    THEN modified_input_validates(applicable, statuses, t + 1, cfg)
    ELSE flags_loop(statuses[t], 1, cfg.nflags, cfg.nvals)

\* the calls of warning() that get through (lines 118-123, 111-116): with
\* werror and bail_on_error the first of them raises VerifyError
emitted_warnings(reports, cfg) ==
    IF cfg.werror /\ cfg.bail_on_error /\ reports # <<>>
    THEN <<reports[1]>>
    ELSE reports

InitSanity ==
    /\ pc = "check"
    /\ errors = 0
    /\ warnings = 0
    /\ sc_cfg \in SanityConfigs
    /\ sc_pos = 0
    /\ sc_last = <<>>
    /\ ParseUnused
    /\ InteractiveUnused
    /\ CaseUnused
    /\ TreeUnused
    /\ SubsUnused
    /\ ProblemUnused
    /\ RecheckUnused
    /\ AliasUnused
    /\ ld_yaml = <<>> /\ ld_pos = 0 /\ ld_dict = <<>> /\ ld_ref = <<>>
    /\ ns_call = <<>> /\ ns_ret = <<>>

\* lines 1178-1190: no validator at all is an error, a validator that does
\* not compile is an error, and after an error the sanity check is left out
SanityCompile ==
    /\ pc = "check"
    /\ \E failed \in (IF sc_cfg.nvals = 0 THEN {1} ELSE 0..sc_cfg.nvals) :
          /\ errors' = IF sc_cfg.bail_on_error /\ failed > 0 THEN errors + 1
                       ELSE errors + failed
          /\ pc' = IF failed = 0 THEN "sanity"
                   ELSE IF sc_cfg.bail_on_error THEN "raised"
                   ELSE "returned"
    /\ UNCHANGED <<warnings, sanityVars, notSanityVars>>

\* errors, warnings and pc after the reports of a step
SanityReported(reports) ==
    /\ errors' = IF sc_cfg.werror
                 THEN errors + Len(emitted_warnings(reports, sc_cfg))
                 ELSE errors
    /\ warnings' = IF sc_cfg.werror THEN warnings
                   ELSE warnings + Len(emitted_warnings(reports, sc_cfg))
    /\ pc' = IF emitted_warnings(reports, sc_cfg) # reports
                \/ (sc_cfg.werror /\ sc_cfg.bail_on_error /\ reports # <<>>)
             THEN "raised" ELSE pc
    /\ sc_pos' = sc_pos + 1

\* lines 1202-1213, one junk case
SanityJunk ==
    /\ pc = "sanity"
    /\ sc_pos < JunkCases
    /\ \E statuses \in [1..sc_cfg.nflags -> [1..sc_cfg.nvals -> SanityStatuses]] :
          \E reports \in {junk_warnings(statuses, 1, sc_cfg.nflags, sc_cfg.nvals)} :
             /\ sc_last' = [kind |-> "junk", applicable |-> <<>>,
                            statuses |-> statuses,
                            reports |-> emitted_warnings(reports, sc_cfg)]
             /\ SanityReported(reports)
    /\ UNCHANGED <<sc_cfg, notSanityVars>>

\* the modification of line 1147 applies to every input
Applicables ==
    {a \in [1..sc_cfg.ncases -> BOOLEAN] :
        sc_pos = JunkSteps - 1 => \A t \in 1..sc_cfg.ncases : a[t]}

\* lines 1240-1242, one modification
SanityModification ==
    /\ pc = "sanity"
    /\ JunkCases <= sc_pos /\ sc_pos < JunkSteps
    /\ \E applicable \in Applicables,
          statuses \in [1..sc_cfg.ncases ->
                          [1..sc_cfg.nflags -> [1..sc_cfg.nvals -> SanityStatuses]]] :
          \E reports \in {IF modified_input_validates(applicable, statuses, 1, sc_cfg)
                          THEN <<0>> ELSE <<>>} :
             /\ sc_last' = [kind |-> "modification", applicable |-> applicable,
                            statuses |-> statuses,
                            reports |-> emitted_warnings(reports, sc_cfg)]
             /\ SanityReported(reports)
    /\ UNCHANGED <<sc_cfg, notSanityVars>>

\* lines 1244-1246
SanityReturn ==
    /\ pc = "sanity"
    /\ sc_pos = JunkSteps
    /\ pc' = "returned"
    /\ UNCHANGED <<errors, warnings, sanityVars, notSanityVars>>

NextSanity == SanityCompile \/ SanityJunk \/ SanityModification \/ SanityReturn

SpecSanity == InitSanity /\ [][NextSanity]_vars

(***************************************************************************)
(* Specification of the runs of the submissions of a scoring problem over  *)
(* one test-data tree (lines 1588-1589, 1515, 541-562): the tree has one   *)
(* sample case and two secret cases, and the testdata.yaml of its groups   *)
(* set score 1 per case and a max_score that the cases can exceed.  The    *)
(* groups keep their _seen_oob_scores from one submission to the next.     *)
(***************************************************************************)
OobLimits == <<1, 1, 2>>

OobGradings ==
    {[g \in Groups \cup {"root"} |->
         <<[score |-> 1,
            aggregation |-> IF g = "secret" THEN agg ELSE "sum",
            max_score |-> IF g = "sample" THEN mx[1]
                          ELSE IF g = "secret" THEN mx[2] ELSE mx[3]]>>] :
        agg \in {"sum", "min"}, mx \in {0, 1} \X {1, 2} \X {2, 3}}

OobConfigs == [is_scoring : {TRUE}, grading : OobGradings]

\* the submission answers within the limit or between it and the high
\* limit, and the validator accepts or rejects
OobExecs ==
    [status : {ExitStatus(0)}, runtime : {Scale, 2 * Scale},
     vruns : {<<[compiles |-> TRUE, status |-> st, fb |-> NoFeedback]>> :
                  st \in {ExitStatus(42), ExitStatus(43)}}]

OobTrees == [sample : [1..1 -> OobExecs], secret : [1..2 -> OobExecs]]

InitOob ==
    /\ pc = "run"
    /\ errors = 0
    /\ tr_cfg \in OobConfigs
    /\ tr_leaves = <<>>
    /\ tr_groups = <<>>
    /\ tr_left = MaxSubs
    /\ agg_group = "none"
    /\ agg_out = <<>>
    /\ seen_oob_scores = [g \in Groups \cup {"root"} |-> FALSE]
    /\ ParseUnused
    /\ InteractiveUnused
    /\ CaseUnused
    /\ RestUnused

\* line 1515 for one submission
OobRunSubmission ==
    /\ pc = "run"
    /\ tr_left > 0
    /\ \E tree \in OobTrees :
          \E out \in {testdata_run_submission(tree, OobLimits, tr_cfg,
                                              seen_oob_scores)} :
             /\ agg_out' = out
             /\ errors' = errors + out.errors
             /\ seen_oob_scores' = out.seen_oob
             /\ pc' = IF out.exc # "none" THEN "raised" ELSE pc
    /\ tr_left' = tr_left - 1
    /\ UNCHANGED <<tr_cfg, tr_leaves, tr_groups, agg_group, notTreeVars>>

NextOob == OobRunSubmission

SpecOob == InitOob /\ [][NextOob]_vars

(***************************************************************************)
(* Specification of the runs of two submissions on one test case (lines    *)
(* 222-286) under the same limits: the submissions and the validator do    *)
(* the same but for the time the submission takes.                         *)
(***************************************************************************)
\* (timelim, timelim_low, timelim_high), ascending
PairLimits == {<<2, 1, 3>>, <<2, 2, 3>>, <<1, 1, 3>>, <<3, 1, 3>>}

\* runtimes of 1.0 to 3.5 seconds
PairRuntimes == {(k * Scale) \div 2 : k \in 2..7}

\* what the processes do apart from the time: the exit code of the
\* validator, which of the two exits first (interactive problems), the wait
\* status of the submission
PairOutcomes ==
    [val_status : {ExitStatus(42), ExitStatus(43)},
     first : {"validator", "submission"},
     sub_status : {ExitStatus(0), ExitStatus(1)}]

PairFeedback(cfg, o) ==
    IF o.val_status = ExitStatus(42) THEN AcceptedFeedback(cfg.custom_scoring)
    ELSE NoFeedback

PairExec(cfg, o, runtime) ==
    IF cfg.is_interactive
    THEN [tool |-> TRUE,
          iruns |-> <<[NoRun EXCEPT !.compiles = TRUE, !.matches = TRUE,
                                    !.val_status = o.val_status,
                                    !.sub_status = o.sub_status,
                                    !.sub_runtime = runtime,
                                    !.first = o.first,
                                    !.fb = PairFeedback(cfg, o)]>>]
    ELSE [status |-> o.sub_status, runtime |-> runtime,
          vruns |-> <<[compiles |-> TRUE, status |-> o.val_status,
                       fb |-> PairFeedback(cfg, o)]>>]

PairConfigs == {cfg \in Configs : cfg.custom_scoring => cfg.is_scoring}

InitPair ==
    /\ pc = "call"
    /\ errors = 0
    /\ config \in PairConfigs
    /\ tc_call = <<>>
    /\ tc_ret = NoTriple
    /\ result_cache = [c \in Cases |-> NoCache]
    /\ ParseUnused
    /\ InteractiveUnused
    /\ TreeUnused
    /\ RestUnused

\* the second submission finds the cache entry of the first
PairSecond(lim, exec, first) ==
    run_submission(<<"secret", "1">>, "sub2", lim[1], lim[2], lim[3], exec,
                   config, 1, first.cache)

PairRunSubmissions ==
    /\ pc = "call"
    /\ \E lim \in PairLimits, o \in PairOutcomes, r1 \in PairRuntimes,
          r2 \in PairRuntimes :
          /\ r1 < r2
          /\ \E ret1 \in {run_submission(<<"secret", "1">>, "sub1", lim[1], lim[2],
                                         lim[3], PairExec(config, o, r1), config,
                                         1, NoCache)} :
             \E ret2 \in {PairSecond(lim, PairExec(config, o, r2), ret1)} :
                /\ tc_call' = [case |-> <<"secret", "1">>, timelim |-> lim[1],
                               timelim_low |-> lim[2], timelim_high |-> lim[3],
                               grading_score |-> 1, outcome |-> o,
                               runtimes |-> <<r1, r2>>]
                /\ tc_ret' = <<triple_of(ret1), triple_of(ret2)>>
                /\ result_cache' =
                       [result_cache EXCEPT ![<<"secret", "1">>] = ret2.cache]
                /\ errors' = errors + ret1.errors + ret2.errors
    /\ pc' = "done"
    /\ UNCHANGED <<config, notCaseVars>>

NextPair == PairRunSubmissions

SpecPair == InitPair /\ [][NextPair]_vars

(***************************************************************************)
(* C4 - C7.  aggregate_results, on the lists the groups of the tree pass   *)
(* to it.  Call k of a group's run_submission aggregates the k-th of its   *)
(* lists res, res_low, res_high.                                           *)
(***************************************************************************)
AggCalls == IF agg_group = "none" THEN {} ELSE 1..Len(agg_out.calls)

AggList(k) == subres_of(items_of(agg_group), <<"res", "res_low", "res_high">>[k])

AggCfg == grading(agg_group)

Verdicts(list) == {list[i].verdict : i \in 1..Len(list)}

AllAC(list) == Verdicts(list) \subseteq {"AC"}

\* the verdict of the first child that is not AC, "AC" when there is none
FirstNonAC(list) ==
    IF AllAC(list) THEN "AC"
    ELSE list[CHOOSE i \in 1..Len(list) :
                 /\ list[i].verdict # "AC"
                 /\ \A j \in 1..(i - 1) : list[j].verdict = "AC"].verdict

\* the first child with verdict JE
FirstJE(list) ==
    list[CHOOSE i \in 1..Len(list) :
            /\ list[i].verdict = "JE"
            /\ \A j \in 1..(i - 1) : list[j].verdict # "JE"]

Scored(list) == \A i \in 1..Len(list) : list[i].score # NoScore

RECURSIVE ScoreSum(_)
ScoreSum(list) == IF list = <<>> THEN 0 ELSE Head(list).score[1] + ScoreSum(Tail(list))

IsMinScore(m, list) ==
    /\ \E i \in 1..Len(list) : list[i].score = <<m>>
    /\ \A i \in 1..Len(list) : m <= list[i].score[1]

\* C4: in a pass/fail problem aggregate_results over a list of child results
\* without JE returns the verdict of the first child that is not AC, or AC
\* when every child is AC, and leaves the score unset.
C4_PassFail ==
    \A k \in AggCalls :
        (~AggCfg.is_scoring /\ "JE" \notin Verdicts(AggList(k))) =>
            /\ agg_out.calls[k].exc = "none"
            /\ agg_out.calls[k].res.verdict = FirstNonAC(AggList(k))
            /\ agg_out.calls[k].res.score = NoScore

\* C5: for a scoring group with aggregation sum and no JE child the score is
\* the sum of the child scores; the verdict is AC if every child is AC, the
\* first child's verdict if no child is AC or PAC, and AC otherwise; so it
\* is AC, PAC or the verdict of a child that is not AC.
C5_SumAggregation ==
    \A k \in AggCalls :
        ( /\ AggCfg.is_scoring /\ AggCfg.aggregation = "sum"
          /\ "JE" \notin Verdicts(AggList(k)) ) =>
            /\ agg_out.calls[k].exc = "none"
            /\ Scored(AggList(k))
            /\ agg_out.calls[k].res.score = <<ScoreSum(AggList(k))>>
            /\ agg_out.calls[k].res.verdict =
                   IF AllAC(AggList(k)) THEN "AC"
                   ELSE IF Verdicts(AggList(k)) \cap {"AC", "PAC"} = {}
                   THEN AggList(k)[1].verdict
                   ELSE "AC"
            /\ agg_out.calls[k].res.verdict
                   \in {"AC", "PAC"} \cup (Verdicts(AggList(k)) \ {"AC"})

\* A sum group whose children are an AC and a child that is not AC: the
\* aggregate is AC with the score of the AC child.
C5_Witness ==
    \E k \in AggCalls :
        /\ AggCfg.is_scoring /\ AggCfg.aggregation = "sum"
        /\ "JE" \notin Verdicts(AggList(k))
        /\ Len(AggList(k)) >= 2
        /\ "AC" \in Verdicts(AggList(k)) /\ ~AllAC(AggList(k))
        /\ agg_out.calls[k].res.verdict = "AC"
        /\ agg_out.calls[k].res.score = <<ScoreSum(AggList(k))>>
        /\ ScoreSum(AggList(k)) > 0

\* C6 as stated: for every list of child results of a min group, the empty
\* list included, the score is the minimum child score and the verdict is
\* AC exactly if every child is AC, else the first non-AC child's verdict.
C6_AsStated ==
    \A k \in AggCalls :
        (AggCfg.is_scoring /\ AggCfg.aggregation = "min") =>
            /\ agg_out.calls[k].exc = "none"
            /\ agg_out.calls[k].res.score # NoScore
            /\ Scored(AggList(k))
            /\ IsMinScore(agg_out.calls[k].res.score[1], AggList(k))
            /\ agg_out.calls[k].res.verdict = FirstNonAC(AggList(k))

\* C6 amended: for a min group the call raises ValueError on the empty
\* list; with a JE child the aggregate is JE and its score stays unset;
\* on every other list the score is the minimum child score and the
\* verdict is AC exactly if every child is AC, else the first non-AC
\* child's verdict.
C6_MinAggregation ==
    \A k \in AggCalls :
        (AggCfg.is_scoring /\ AggCfg.aggregation = "min") =>
            IF "JE" \in Verdicts(AggList(k))
            THEN /\ agg_out.calls[k].exc = "none"
                 /\ agg_out.calls[k].res.verdict = "JE"
                 /\ agg_out.calls[k].res.score = NoScore
            ELSE IF AggList(k) = <<>>
            THEN agg_out.calls[k].exc = "ValueError"
            ELSE /\ agg_out.calls[k].exc = "none"
                 /\ Scored(AggList(k))
                 /\ agg_out.calls[k].res.score # NoScore
                 /\ IsMinScore(agg_out.calls[k].res.score[1], AggList(k))
                 /\ (agg_out.calls[k].res.verdict = "AC") <=> AllAC(AggList(k))
                 /\ agg_out.calls[k].res.verdict = FirstNonAC(AggList(k))

\* A min group whose children are an AC with a positive score and then a
\* child that is not AC: the aggregate has that child's verdict and score 0.
C6_Witness ==
    \E k \in AggCalls :
        /\ AggCfg.is_scoring /\ AggCfg.aggregation = "min"
        /\ "JE" \notin Verdicts(AggList(k))
        /\ Len(AggList(k)) >= 2
        /\ AggList(k)[1].verdict = "AC" /\ AggList(k)[1].score[1] > 0
        /\ AggList(k)[2].verdict # "AC"
        /\ agg_out.calls[k].res.verdict = AggList(k)[2].verdict
        /\ agg_out.calls[k].res.score = <<0>>

\* the run of the submission over the tree is over: the root returned, or
\* some group's run_submission raised
TreeRunOver == pc \in {"done", "raised"}

\* the place of a group's triple among those of the root's children
GroupIndex(g) == IF g = "sample" THEN 1 ELSE 2

\* C7: a list with a JE child gives the first JE child's verdict, reason,
\* additional_info and testcase in every aggregation mode; and a test case
\* with verdict JE makes its group and the root JE.
C7_JudgeError ==
    /\ \A k \in AggCalls :
          "JE" \in Verdicts(AggList(k)) =>
              /\ agg_out.calls[k].exc = "none"
              /\ agg_out.calls[k].res.verdict = "JE"
              /\ agg_out.calls[k].res.reason = FirstJE(AggList(k)).reason
              /\ agg_out.calls[k].res.additional_info
                     = FirstJE(AggList(k)).additional_info
              /\ agg_out.calls[k].res.testcase = FirstJE(AggList(k)).testcase
    /\ TreeRunOver =>
          \A g \in Groups :
              "JE" \in Verdicts(subres_of(tr_leaves[g], "res")) =>
                  /\ pc = "done"
                  /\ agg_out.res.verdict = "JE"
                  /\ tr_groups[GroupIndex(g)].res.verdict = "JE"

(***************************************************************************)
(* C8.  What one output-validator run yields, by exit status.              *)
(***************************************************************************)
ExitedWith(status, code) == WIFEXITED(status) /\ WEXITSTATUS(status) = code

ScoreFileFault(custom_score, fb) ==
    \/ custom_score /\ fb.score_file \in {"absent", "bad"}
    \/ ~custom_score /\ fb.score_file # "absent"

\* C8 as stated: exit code 43 gives WA; a signal or an exit code other than
\* 42 and 43 gives JE; exit code 42 gives AC, unless the score file is at
\* fault (missing or unparsable with custom scoring, present without), and
\* then JE.
C8_AsStated ==
    pc = "done" =>
        LET a == pv_args IN
        /\ ExitedWith(a.status, 43) => pv_res.verdict = "WA"
        /\ (~WIFEXITED(a.status) \/ WEXITSTATUS(a.status) \notin {42, 43})
               => pv_res.verdict = "JE"
        /\ ExitedWith(a.status, 42) =>
               pv_res.verdict = (IF ScoreFileFault(a.custom_score, a.fb)
                                 THEN "JE" ELSE "AC")

\* C8 amended: a score.txt present without custom scoring gives JE whatever
\* the exit status; otherwise exit code 43 gives WA, a signal or an exit code
\* other than 42 and 43 gives JE, and exit code 42 gives AC except that with
\* custom scoring a missing or unparsable score.txt gives JE.
C8_ValidatorExit ==
    pc = "done" =>
        LET a == pv_args IN
        IF ~a.custom_score /\ a.fb.score_file # "absent"
        THEN pv_res.verdict = "JE"
        ELSE /\ ExitedWith(a.status, 43) => pv_res.verdict = "WA"
             /\ (~WIFEXITED(a.status) \/ WEXITSTATUS(a.status) \notin {42, 43})
                    => pv_res.verdict = "JE"
             /\ ExitedWith(a.status, 42) =>
                    pv_res.verdict = (IF ScoreFileFault(a.custom_score, a.fb)
                                      THEN "JE" ELSE "AC")

\* The validator exits with 43 and leaves a score.txt in a problem without
\* custom scoring: the run has been parsed, to JE.
C8_Witness ==
    /\ pc = "done"
    /\ ExitedWith(pv_args.status, 43)
    /\ ~pv_args.custom_score
    /\ pv_args.fb.score_file = "ok"
    /\ pv_res.verdict = "JE"

(***************************************************************************)
(* C9.  The verdict rules of validate_interactive, in order.               *)
(***************************************************************************)
CoordinatorRan == pc \in {"loop", "done"} /\ iv_i > 0 /\ iv_run.compiles

LineParsed == ~is_RTE(iv_run.i_status) /\ iv_run.matches

ValidatorJE(run) ==
    ~WIFEXITED(run.val_status) \/ WEXITSTATUS(run.val_status) \notin {42, 43}

ValidatorWAFirst(run) ==
    ExitedWith(run.val_status, 43) /\ run.first = "validator"

Clamp(runtime, limit) == IF runtime > limit * Scale THEN limit * Scale ELSE runtime

\* C9: after a coordinator run, a crashed coordinator or a line not matching
\* the pattern gives JE; otherwise a validator JE, or a validator WA that
\* exited first, gives the validator's verdict with the runtime clamped to
\* the limit; otherwise a TLE submission status gives TLE; otherwise an RTE
\* submission status gives RTE; otherwise the validator's verdict is taken;
\* and validator_first says whether the validator exited first.
C9_InteractiveOrder ==
    CoordinatorRan =>
        LET run == iv_run
            val == parse_validator_results(iv_args.custom_score,
                                           run.val_status, run.fb)
        IN
        IF ~LineParsed THEN iv_res.verdict = "JE"
        ELSE /\ iv_res.validator_first = (run.first = "validator")
             /\ IF ValidatorJE(run) \/ ValidatorWAFirst(run)
                THEN /\ iv_res.verdict = val.verdict
                     /\ iv_res.runtime = Clamp(run.sub_runtime, iv_args.timelim)
                ELSE IF is_TLE(run.sub_status, TRUE) THEN iv_res.verdict = "TLE"
                ELSE IF is_RTE(run.sub_status) THEN iv_res.verdict = "RTE"
                ELSE iv_res.verdict = val.verdict

(***************************************************************************)
(* C10.  An interactive WA of a validator that exited first is not turned  *)
(* into TLE.                                                               *)
(***************************************************************************)
\* the coordinator run that decides the result: the last one of the call
DecidingRun == tc_call.exec.iruns[Len(tc_call.exec.iruns)]

InteractiveRan ==
    /\ pc = "done" /\ config.is_interactive
    /\ tc_call.exec.tool /\ tc_call.exec.iruns # <<>>
    /\ DecidingRun.compiles
    /\ ~is_RTE(DecidingRun.i_status) /\ DecidingRun.matches

StrayScoreFile(run) == ~config.custom_scoring /\ run.fb.score_file # "absent"

\* C10 as stated: whenever the validator exits first with WA, res is WA with
\* validator_first set; and when the runtime exceeds timelim, res_low is WA
\* too and the runtime of res_high is timelim_low.
C10_AsStated ==
    (InteractiveRan /\ ValidatorWAFirst(DecidingRun)) =>
        /\ tc_ret.res.verdict = "WA"
        /\ tc_ret.res.validator_first
        /\ DecidingRun.sub_runtime > tc_call.timelim * Scale =>
               /\ tc_ret.res_low.verdict = "WA"
               /\ tc_ret.res_high.runtime = tc_call.timelim_low * Scale

\* the example of the claim: 11.0 s against timelim 5, hi 10, lo 3
C10_Example ==
    \E ret \in {run_submission(
                     <<"secret", "1">>, "sub", 5, 3, 10,
                     [tool |-> TRUE,
                      iruns |-> <<[NoRun EXCEPT !.compiles = TRUE,
                                                !.matches = TRUE,
                                                !.val_status = ExitStatus(43),
                                                !.sub_status = SIGXCPU,
                                                !.sub_runtime = 11 * Scale,
                                                !.first = "validator"]>>],
                     [config EXCEPT !.is_interactive = TRUE], 1, NoCache)} :
        /\ ret.res.verdict = "WA" /\ ret.res.validator_first
        /\ ret.res_low.verdict = "WA"
        /\ ret.res_high.verdict = "WA" /\ ret.res_high.validator_first
        /\ ret.res_high.runtime = 3 * Scale

\* the runtime validate_interactive reports: clamped to timelim_high
ClampedRuntime ==
    IF DecidingRun.sub_runtime > tc_call.timelim_high * Scale
    THEN tc_call.timelim_high * Scale ELSE DecidingRun.sub_runtime

\* C10 amended: whenever the validator exits first with WA (exit code 43,
\* and no score.txt left in a problem without custom scoring), res is WA
\* with validator_first set, for every submission runtime and status; and
\* when the runtime, clamped to timelim_high, exceeds both timelim and
\* timelim_low, res_low is WA too and the runtime of res_high is rewritten
\* to timelim_low (11.0 s against timelim 5, hi 10, lo 3 gives res WA,
\* res_low WA and a res_high runtime of 3).
C10_ValidatorFirstWA ==
    /\ pc = "call" => C10_Example
    /\ (InteractiveRan /\ ValidatorWAFirst(DecidingRun)
           /\ ~StrayScoreFile(DecidingRun)) =>
          /\ tc_ret.res.verdict = "WA"
          /\ tc_ret.res.validator_first
          /\ ( /\ ClampedRuntime > tc_call.timelim * Scale
               /\ ClampedRuntime > tc_call.timelim_low * Scale ) =>
                 /\ tc_ret.res_low.verdict = "WA"
                 /\ tc_ret.res_high.runtime = tc_call.timelim_low * Scale

\* The validator exited first with WA, the submission was killed for CPU time
\* after more than timelim_high: res and res_low are WA, the runtime of
\* res_high is timelim_low.
C10_Witness ==
    /\ InteractiveRan /\ ValidatorWAFirst(DecidingRun)
    /\ ~StrayScoreFile(DecidingRun)
    /\ DecidingRun.sub_status = SIGXCPU
    /\ DecidingRun.sub_runtime > tc_call.timelim_high * Scale
    /\ ClampedRuntime > tc_call.timelim * Scale
    /\ ClampedRuntime > tc_call.timelim_low * Scale
    /\ tc_ret.res.verdict = "WA" /\ tc_ret.res_low.verdict = "WA"
    /\ tc_ret.res_high.runtime = tc_call.timelim_low * Scale

\* the check of a submission has run
SubsChecked == sb_call.acr # None

\* the error "got {result}" of line 1537 is among the reports of the call
JudgmentReported ==
    \E i \in 1..Len(sb_call.out.reports) : sb_call.out.reports[i] = "judgment"

\* C1: for a submission whose label L is AC, WA, RTE or TLE,
\* check_submission has the root results and reports the judgment error
\* exactly when the root verdict under timelim and the root verdict under
\* the high limit both differ from L.
C1_Judgment ==
    (SubsChecked /\ sb_call.acr # "PAC") =>
        /\ sb_call.out.exc = "none"
        /\ JudgmentReported <=> (/\ sb_call.out.res.verdict # sb_call.acr
                                 /\ sb_call.out.res_high.verdict # sb_call.acr)

\* n is num/den rounded to the nearest integer, a half rounded up
Nearest(n, num, den) ==
    2 * den * n <= 2 * num + den /\ 2 * num + den < 2 * den * (n + 1)

Round(num, den) ==
    CHOOSE n \in {num \div den, (num \div den) + 1} : Nearest(n, num, den)

Max2(a, b) == IF a >= b THEN a ELSE b
Min2(a, b) == IF a <= b THEN a ELSE b

\* the limits stated for a largest runtime of m ticks
StatedLimits(m, mult, margin) ==
    [timelim |-> Max2(1, Round(m * mult, Scale)),
     timelim_margin_lo |->
         Max2(1, Min2(Round(m * mult, Scale * margin),
                      Max2(1, Round(m * mult, Scale)) - 1)),
     timelim_margin |->
         Max2(Max2(1, Round(m * mult, Scale)) + 1, Round(m * mult * margin, Scale))]

\* the AC batch ends in this step
ACBatchEnds == pc = "batch" /\ pc' = "batch_begin" /\ VERDICTS[sb_acr] = "AC"

\* C3: a largest runtime of 1.4 seconds with multiplier 2 and safety margin
\* 2 gives the limits 3, 1 and 6; when the AC batch ends with a runtime
\* collected and no fixed limit is given, the limits become timelim =
\* max(1, round(exact)), lo = max(1, min(round(exact / safety_margin),
\* timelim - 1)) and margin = max(timelim + 1, round(exact * safety_margin))
\* for exact = max_runtime * time_multiplier, and every later check of a
\* submission runs under them.
C3_Limits ==
    /\ ac_limits(14, 10, 2, 2)
           = [timelim |-> 3, timelim_margin_lo |-> 1, timelim_margin |-> 6]
    /\ [][/\ (ACBatchEnds /\ sb_runtimes # <<>> /\ sb_cfg.fixed_timelim = NoLimit)
              => sb_limits' = StatedLimits(
                                  SetMax({sb_runtimes[i] : i \in 1..Len(sb_runtimes)}),
                                  sb_cfg.time_multiplier, sb_cfg.safety_margin)
          /\ (pc # "check" /\ VERDICTS[sb_acr] # "AC")
              => /\ sb_limits' = sb_limits
                 /\ sb_call' # sb_call
                     => sb_call'.lim =
                            <<sb_limits.timelim,
                              IF sb_call'.acr = "PAC" THEN sb_limits.timelim_margin_lo
                              ELSE sb_limits.timelim,
                              sb_limits.timelim_margin>>]_vars

\* a partially accepted submission is checked under the limits of the
\* example, which the AC batch gave
C3_Witness ==
    /\ SubsChecked
    /\ sb_call.acr = "PAC"
    /\ sb_cfg.fixed_timelim = NoLimit
    /\ sb_cfg.time_multiplier = 2 /\ sb_cfg.safety_margin = 2
    /\ sb_limits = [timelim |-> 3, timelim_margin_lo |-> 1, timelim_margin |-> 6]
    /\ sb_call.lim = <<3, 1, 6>>

\* C2: when the process has exited, its exit code is 1 if at least one
\* error was reported for a problem, while it was loaded or checked, and 0
\* otherwise.
C2_ExitCode ==
    pc = "exited" => (exit_code = 1 <=> logged_errors > 0)

\* TestCase.run_submission has run on a test case
CaseRan == tc_call # <<>>

\* res_high as line 264 finds it: what the run under the high limit gave
MeasuredHigh == run_high(tc_call.exec, tc_call.timelim_high, config).res

\* two results agree in verdict, score and runtime
SameValue(a, b) == a.verdict = b.verdict /\ a.score = b.score /\ a.runtime = b.runtime

\* line 275: the validator exited first with WA
OverrideCase == MeasuredHigh.validator_first /\ MeasuredHigh.verdict = "WA"

C12_AsStated ==
    (CaseRan /\ MeasuredHigh.runtime = tc_call.timelim * Scale)
        => tc_ret.res_low.verdict = "TLE"

\* C12 amended: a measured runtime equal to timelim gives res_low TLE when
\* lo < timelim; when lo >= timelim res_low equals res_high in verdict,
\* score and runtime.  check_submission passes lo = timelim for every
\* label but PAC, so the second case is the one of every run of a
\* submission labelled AC, WA, RTE or TLE.
C12_RuntimeAtTimelim ==
    /\ \A acr \in {"AC", "WA", "RTE", "TLE"}, lim \in LimitTriples :
          submission_limits(acr, [timelim |-> lim[1], timelim_margin_lo |-> lim[2],
                                  timelim_margin |-> lim[3]])
              = <<lim[1], lim[1], lim[3]>>
    /\ (CaseRan /\ MeasuredHigh.runtime = tc_call.timelim * Scale)
          => /\ tc_call.timelim_low < tc_call.timelim
                => tc_ret.res_low.verdict = "TLE"
             /\ tc_call.timelim_low >= tc_call.timelim
                => SameValue(tc_ret.res_low, tc_ret.res_high)

\* an accepted run that takes exactly timelim, with lo below timelim:
\* res_low is TLE, res is AC
C12_Witness ==
    /\ CaseRan
    /\ MeasuredHigh.runtime = tc_call.timelim * Scale
    /\ tc_call.timelim_low < tc_call.timelim
    /\ tc_ret.res.verdict = "AC"
    /\ tc_ret.res_low.verdict = "TLE"

\* a run of a problem that is not interactive
PlainRan == CaseRan /\ ~config.is_interactive

\* C13 as stated: interactive or not, whatever the status of the
\* submission, a runtime equal to hi does not give res_high TLE and a
\* runtime greater than hi gives res_high TLE.
C13_AsStated ==
    /\ PlainRan =>
          /\ tc_call.exec.runtime = tc_call.timelim_high * Scale
                => tc_ret.res_high.verdict # "TLE"
          /\ tc_call.exec.runtime > tc_call.timelim_high * Scale
                => tc_ret.res_high.verdict = "TLE"
    /\ InteractiveRan =>
          /\ DecidingRun.sub_runtime = tc_call.timelim_high * Scale
                => tc_ret.res_high.verdict # "TLE"
          /\ DecidingRun.sub_runtime > tc_call.timelim_high * Scale
                => tc_ret.res_high.verdict = "TLE"

\* C13 amended: in a run that is not interactive res_high is TLE exactly
\* when the runtime is greater than hi or the submission was killed by
\* SIGXCPU, so a runtime equal to hi gives TLE only through the signal;
\* in an interactive run the runtime is not compared with hi: res_high is
\* TLE exactly when the coordinator reports the submission killed by
\* SIGXCPU or SIGUSR1 and the validator neither crashed nor exited first
\* with WA.
C13_HighLimit ==
    /\ PlainRan =>
          (tc_ret.res_high.verdict = "TLE"
              <=> \/ tc_call.exec.runtime > tc_call.timelim_high * Scale
                  \/ is_TLE(tc_call.exec.status, FALSE))
    /\ InteractiveRan =>
          (tc_ret.res_high.verdict = "TLE"
              <=> /\ is_TLE(DecidingRun.sub_status, TRUE)
                  /\ ~ValidatorJE(DecidingRun)
                  /\ ~ValidatorWAFirst(DecidingRun))

\* a submission that exits normally after exactly hi and is accepted
C13_Witness ==
    /\ PlainRan
    /\ tc_call.exec.runtime = tc_call.timelim_high * Scale
    /\ tc_call.exec.status = ExitStatus(0)
    /\ tc_ret.res_high.verdict = "AC"

\* a report of the kind is among the reports of the last check_submission
Reported(kind) ==
    \E i \in 1..Len(sb_call.out.reports) : sb_call.out.reports[i] = kind

\* C14: for a submission labelled PAC, check_submission decides with the
\* verdict obtained under lo: it says OK only if that verdict is AC, it
\* reports the judgment error only if that verdict is not AC, and a
\* submission that is AC under lo is either OK or, when fully accepted,
\* warned about.
C14_PartialUnderLow ==
    (SubsChecked /\ sb_call.acr = "PAC" /\ sb_call.out.exc = "none") =>
        /\ Reported("ok") => sb_call.out.res_low.verdict = "AC"
        /\ Reported("judgment") => sb_call.out.res_low.verdict # "AC"
        /\ sb_call.out.res_low.verdict = "AC"
              => Reported("ok") \/ Reported("partial_full")

\* Problem.check runs with bail_on_error set
BailingCheck == pc \in {"parts", "checked"} /\ bail_on_error

\* C15: with bail_on_error set the first error of Problem.check ends the
\* check: the loop over the parts goes on only while no error was counted,
\* and the count the check returns is at most 1.
C15_BailOnError ==
    BailingCheck =>
        /\ pc = "parts" => errors = 0
        /\ errors <= 1

\* a call of a component's check that finds _check_res set
SecondCheck == pc = "items" /\ rc_items # <<>> /\ check_res[Head(rc_items)] # <<>>

\* the call of check that SecondCheck is about returns
CheckReturns(c) == pc' = "items" /\ rc_returns'[c] = Append(rc_returns[c], check_res[c][1])

\* a score out of bounds was reported on the test data group after its check
ReportedOnSince(c) == c = "testdata" /\ rc_package.oob

\* C16, as stated: the second call of a component's check returns what the
\* first call returned.
C16_AsStated ==
    \A c \in ComponentSet :
        Len(rc_returns[c]) >= 2 => rc_returns[c][2] = rc_returns[c][1]

\* C16: a call of a component's check that finds a result reports nothing,
\* changes neither counter and returns that result, which is what the first
\* call returned unless an error was reported on the component since: then
\* it is False.
C16_Idempotent ==
    [][/\ SecondCheck =>
             /\ errors' = errors
             /\ warnings' = warnings
             /\ check_res' = check_res
             /\ CheckReturns(Head(rc_items))
       /\ \A c \in ComponentSet :
             Len(rc_returns'[c]) >= 2 =>
                 \/ rc_returns'[c][2] = rc_returns'[c][1]
                 \/ ReportedOnSince(c) /\ ~rc_returns'[c][2]]_vars

C16_Witness ==
    /\ Len(rc_returns["testdata"]) >= 2
    /\ rc_returns["testdata"][1]
    /\ ~rc_returns["testdata"][2]
    /\ Len(rc_returns["config"]) >= 2
    /\ Len(rc_pairs) = 1 /\ rc_pairs[1][1] > 0 /\ errors = 0

\* what Problem.check reports itself: the shortname (lines 1674-1675)
OwnPair == <<IF rc_package.shortname = "Name" THEN 1 ELSE 0, 0>>

\* C17, as stated: two successive calls of Problem.check return equal pairs.
C17_AsStated == Len(rc_pairs) >= 2 => rc_pairs[2] = rc_pairs[1]

\* C17: without bail_on_error the second of two calls of Problem.check returns
\* the count of what Problem.check reports itself and nothing of what the
\* components reported in the first call.
C17_Recheck ==
    (Len(rc_pairs) >= 2 /\ ~rc_args.bail_on_error) => rc_pairs[2] = OwnPair

C17_Witness ==
    /\ Len(rc_pairs) >= 2
    /\ ~rc_args.bail_on_error
    /\ rc_pairs[1][1] > 1 /\ rc_pairs[1][2] > 0
    /\ rc_pairs[2] = <<1, 0>>

\* the results of a logged call of run_submission: res, res_low, res_high
Triple(call) == <<call.res, call.res_low, call.res_high>>

SameVerdictRuntime(x, y) ==
    \A k \in 1..3 :
        /\ Triple(x)[k].verdict = Triple(y)[k].verdict
        /\ Triple(x)[k].runtime = Triple(y)[k].runtime

SameScore(x, y) == \A k \in 1..3 : Triple(x)[k].score = Triple(y)[k].score

\* every result has the same score in both calls, or it is an accepted
\* result the validator gave no score and has in each call grading.score of
\* the group of the case called
SameOrGroupScore(x, y) ==
    \A k \in 1..3 :
        \/ Triple(x)[k].score = Triple(y)[k].score
        \/ /\ config.is_scoring /\ ~config.custom_scoring
           /\ Triple(x)[k].verdict = "AC"
           /\ Triple(x)[k].score = <<config.grading_score[x.case[1]]>>
           /\ Triple(y)[k].score = <<config.grading_score[y.case[1]]>>

\* no call between the calls i and j has another key than call i
SameKeyBetween(i, j) == \A m \in i..j : al_log[m].key = al_log[i].key

\* no call on the case of call i between i and j has another key than call i
SameKeyOnCaseBetween(i, j) ==
    \A m \in i..j : al_log[m].case = al_log[i].case => al_log[m].key = al_log[i].key

\* C18, as stated: a call on the alias and the next call, on its target
\* with the same key (or the other way round), agree in verdict, score and
\* runtime.
C18_AsStated ==
    \A i \in 1..(Len(al_log) - 1) :
        (al_log[i].case # al_log[i + 1].case /\ al_log[i].key = al_log[i + 1].key)
            => SameVerdictRuntime(al_log[i], al_log[i + 1])
               /\ SameScore(al_log[i], al_log[i + 1])

\* C18: a call on the alias and a call on its target with the same key, with
\* no call of another key between them, agree in verdict and runtime, the
\* later is reused, and they agree in score except for an accepted result
\* without a validator score in a scoring problem: it has the grading score
\* of the calling case's group.
C18_AliasSound ==
    \A i \in 1..Len(al_log), j \in 1..Len(al_log) :
        (i < j /\ al_log[i].case # al_log[j].case /\ SameKeyBetween(i, j))
            => /\ SameVerdictRuntime(al_log[i], al_log[j])
               /\ SameOrGroupScore(al_log[i], al_log[j])
               /\ al_log[j].reused

C18_Witness ==
    /\ Len(al_log) >= 2
    /\ al_log[1].case = <<"sample", "1">> /\ ~al_log[1].reused
    /\ al_log[2].case = <<"secret", "1">> /\ al_log[2].key = al_log[1].key
    /\ al_log[1].res.verdict = "AC"
    /\ al_log[1].res.score = <<0>> /\ al_log[2].res.score = <<1>>

\* C19, as stated: two calls on the same case with the same key, with no
\* call of another key on that case between, agree in verdict, score and
\* runtime, and the second is reused.
C19_AsStated ==
    \A i \in 1..Len(al_log), j \in 1..Len(al_log) :
        (i < j /\ al_log[i].case = al_log[j].case /\ SameKeyOnCaseBetween(i, j))
            => /\ SameVerdictRuntime(al_log[i], al_log[j])
               /\ SameScore(al_log[i], al_log[j])
               /\ al_log[j].reused

\* C19: two calls on the same case with the same key, with no call of
\* another key on that case, on its alias or on its target between, agree in
\* verdict, score and runtime, and the second is reused.
C19_CacheCoherent ==
    \A i \in 1..Len(al_log), j \in 1..Len(al_log) :
        (i < j /\ al_log[i].case = al_log[j].case /\ SameKeyBetween(i, j))
            => /\ SameVerdictRuntime(al_log[i], al_log[j])
               /\ SameScore(al_log[i], al_log[j])
               /\ al_log[j].reused

C19_Witness ==
    /\ Len(al_log) = 3
    /\ al_log[1].case = <<"secret", "1">> /\ ~al_log[1].reused
    /\ al_log[2].case = <<"sample", "1">>
    /\ al_log[3].case = <<"secret", "1">> /\ al_log[3].reused
    /\ SameKeyBetween(1, 3)
    /\ al_log[3].res_low.verdict = "TLE" /\ al_log[3].res.verdict = "AC"

\* the mapping of testdata.yaml that counts for a group: its own, or the one
\* it inherits
RECURSIVE YamlGrading(_)
YamlGrading(g) ==
    IF ld_yaml[g] # NoGrading THEN ld_yaml[g] ELSE YamlGrading(parent_of(g))

\* config['grading'] of a group after loading
LoadedGrading(g) == ld_dict[ld_ref[g]]

\* C20: after loading, a group whose testdata.yaml (own or inherited) sets no
\* grading.score has the default score of its position, and one whose
\* testdata.yaml sets no grading.aggregation has the default aggregation of
\* its position.
C20_GradingDefaults ==
    pc = "loaded" =>
        \A g \in LoadGroups :
            /\ YamlGrading(g).score = <<>> =>
                   LoadedGrading(g).score = <<default_grading(g).score>>
            /\ YamlGrading(g).aggregation = <<>> =>
                   LoadedGrading(g).aggregation = <<default_grading(g).aggregation>>

\* the name "a" followed by the digits of a number
NumberedName(s) ==
    /\ Len(s) >= 2 /\ s[1] = 97
    /\ \A k \in 2..Len(s) : is_digit(s[k])

NumberOf(s) == parse_num(s \o <<0>>, 1, 0)[1]

\* natural_sort_le(x, y) returns True
Le(x, y) == natural_sort_le(x, y).exc = "none" /\ natural_sort_le(x, y).ret

\* C21: natural_sort_le returns a boolean for every pair of names, is
\* reflexive and transitive, and on names "a"+N and "a"+M is N <= M.
C21_TotalOrder ==
    pc = "done" =>
        /\ ns_ret.exc = "none"
        /\ ns_call.a = ns_call.b => ns_ret.ret
        /\ (NumberedName(ns_call.a) /\ NumberedName(ns_call.b)) =>
               (ns_ret.ret <=> NumberOf(ns_call.a) <= NumberOf(ns_call.b))
        /\ ns_ret.ret =>
               \A z \in Names : Le(ns_call.b, z) => Le(ns_call.a, z)

\* the elements of a sequence
ReportSet(reports) == {reports[k] : k \in 1..Len(reports)}

\* the flags under which every validator exits with 42 on the junk case
AcceptedUnder(statuses) ==
    {f \in 1..sc_cfg.nflags :
        \A v \in 1..sc_cfg.nvals : WEXITSTATUS(statuses[f][v]) = 42}

\* the modification applies to some input and every validator, under every
\* flag set, exits with 42 on the modified form of the first such input
FirstApplicableAccepted(applicable, statuses) ==
    \E t \in 1..sc_cfg.ncases :
        /\ applicable[t]
        /\ \A u \in 1..(t - 1) : ~applicable[u]
        /\ \A f \in 1..sc_cfg.nflags, v \in 1..sc_cfg.nvals :
               WEXITSTATUS(statuses[t][f][v]) = 42

\* what the claim expects the last step to have warned of
ExpectedReports ==
    IF sc_last.kind = "junk" THEN AcceptedUnder(sc_last.statuses)
    ELSE IF FirstApplicableAccepted(sc_last.applicable, sc_last.statuses)
    THEN {0} ELSE {}

\* a single validator that exits with 42 on whatever it is given
AcceptsEverything ==
    /\ sc_cfg.nvals = 1
    /\ sc_last.kind = "junk" =>
           \A f \in 1..sc_cfg.nflags : WEXITSTATUS(sc_last.statuses[f][1]) = 42
    /\ sc_last.kind = "modification" =>
           \A t \in 1..sc_cfg.ncases, f \in 1..sc_cfg.nflags :
               WEXITSTATUS(sc_last.statuses[t][f][1]) = 42

\* the last step was about a junk case, or about a modification that applies
\* to some input
LastApplies ==
    sc_last.kind = "modification" =>
        \E t \in 1..sc_cfg.ncases : sc_last.applicable[t]

\* the first warning raises VerifyError
WarningRaises == sc_cfg.werror /\ sc_cfg.bail_on_error

\* C22 as stated: every junk case is warned of under exactly the flags under
\* which every validator exits with 42, every modification exactly when it
\* applies and the first input it applies to is accepted throughout, and
\* under a single validator that accepts everything every junk case and
\* every applicable modification is warned of.
C22_AsStated ==
    sc_last # <<>> =>
        /\ ReportSet(sc_last.reports) = ExpectedReports
        /\ (AcceptsEverything /\ LastApplies) => sc_last.reports # <<>>

\* C22 (amended): unless the first warning raises, every junk case is warned
\* of under exactly the flags under which every validator exits with 42 and
\* every modification exactly when it applies to some input and the first
\* input it applies to is accepted by every validator under every flag set;
\* when the first warning raises, the step warns once if that set is not
\* empty and not at all if it is.  Under a single validator that accepts
\* everything every applicable modification is warned of, and every junk
\* case as long as the tree holds a test case.
C22_SanityCheck ==
    sc_last # <<>> =>
        /\ ~WarningRaises => ReportSet(sc_last.reports) = ExpectedReports
        /\ WarningRaises =>
               /\ ReportSet(sc_last.reports) \subseteq ExpectedReports
               /\ Len(sc_last.reports) = IF ExpectedReports = {} THEN 0 ELSE 1
        /\ (AcceptsEverything /\ LastApplies /\ sc_cfg.ncases > 0) =>
               sc_last.reports # <<>>

\* two flag sets under both of which the validator accepts a junk case, and
\* a modification that skips the first input and is accepted on the second
C22_Witness ==
    /\ sc_last # <<>>
    /\ \/ /\ sc_last.kind = "junk"
          /\ sc_cfg.nflags = 2
          /\ Len(sc_last.reports) = 2
       \/ /\ sc_last.kind = "modification"
          /\ sc_cfg.ncases = 2
          /\ ~sc_last.applicable[1]
          /\ sc_last.reports = <<0>>
          /\ sc_pos = JunkSteps

\* C23: the primary result a test case returns carries itself as its only
\* sample failure when the case lives under sample and the verdict is not
\* AC, and no sample failure otherwise (so that the aggregates, which add up
\* the lists of their children, list each failing sample case once).
C23_SampleFailures ==
    tc_ret # NoTriple =>
        tc_ret.res.sample_failures =
            IF is_in_sample_group(tc_call.case) /\ tc_ret.res.verdict # "AC"
            THEN <<sample_failure(tc_ret.res)>>
            ELSE <<>>

\* C27: a call of run_submission that finds its key in the cache of a test
\* case (made on the case or on an alias of it) leaves the cached triple as
\* it was: what is done to the results returned does not show in the cache.
C27_CacheUnchanged ==
    [][\A c \in AliasCases :
          (result_cache[c].key # <<>> /\ result_cache'[c].key = result_cache[c].key)
              => result_cache'[c] = result_cache[c]]_vars

\* the groups whose _seen_oob_scores the step sets
LatchedByStep ==
    {g \in Groups \cup {"root"} : ~seen_oob_scores[g] /\ seen_oob_scores'[g]}

\* some list of the last run gave the group a score above its max_score
OverMaxScore(g) ==
    \E which \in {"res", "res_low", "res_high"} :
        /\ agg_out[which].score # NoScore
        /\ agg_out[which].score[1] > tr_cfg.grading[g][1].max_score

\* C24: over all the submissions run, the error 'more than the maximum
\* score' is reported at most once per group: a run reports it for the
\* groups whose latch it sets and for no other, once each although three
\* lists are aggregated, and a latch that is set stays set.
C24_OobOnce ==
    [][/\ \A g \in Groups \cup {"root"} : seen_oob_scores[g] => seen_oob_scores'[g]
       /\ errors' - errors = Cardinality(LatchedByStep)]_vars

\* a later submission exceeds the root's max_score again, the latch is set
\* and the errors are those of the earlier runs, one per group at most
C24_Witness ==
    /\ pc = "run"
    /\ tr_left = 0
    /\ seen_oob_scores["root"]
    /\ OverMaxScore("root")
    /\ errors = Cardinality({g \in Groups \cup {"root"} : seen_oob_scores[g]})
    /\ errors >= 2

\* C25: the limits of every call of check_submission to the tree's
\* run_submission, (timelim, timelim_low, timelim_high), are ascending:
\* timelim_low <= timelim <= timelim_high.
C25_Ascending ==
    SubsChecked =>
        /\ sb_call.lim[2] <= sb_call.lim[1]
        /\ sb_call.lim[1] <= sb_call.lim[3]

\* the step is a call of run_submission on a reuse alias
AliasCalled ==
    /\ Len(al_log') = Len(al_log) + 1
    /\ reuse_result_from(al_log'[Len(al_log')].case) # NoCase

\* the key of a logged call as the cache holds it
CacheKey(call) == <<call.key[1], call.key[2][1], call.key[2][2], call.key[2][3]>>

\* the cached triples agree in verdict, runtime and score
SameCachedValues(x, y) == SameVerdictRuntime(x, y) /\ SameScore(x, y)

\* C26 as stated: a call on a reuse alias executes nothing and leaves the
\* state of its target as it was.
C26_AsStated ==
    [][AliasCalled =>
          /\ al_log'[Len(al_log')].reused
          /\ result_cache' = result_cache]_vars

\* C26 (amended): a call on a reuse alias executes nothing exactly when the
\* cache of its target holds the key of the call, and then the cache keeps
\* its key and the verdicts, runtimes and scores of its triple; otherwise
\* the call runs the submission and leaves its triple in the cache of the
\* target under the key of the call.  The alias never has a cache entry of
\* its own.
C26_AliasDelegates ==
    [][AliasCalled =>
          /\ result_cache'[al_log'[Len(al_log')].case] = NoCache
          /\ al_log'[Len(al_log')].reused <=>
                 result_cache[reuse_result_from(al_log'[Len(al_log')].case)].key
                     = CacheKey(al_log'[Len(al_log')])
          /\ result_cache'[reuse_result_from(al_log'[Len(al_log')].case)].key
                 = CacheKey(al_log'[Len(al_log')])
          /\ al_log'[Len(al_log')].reused =>
                 SameCachedValues(
                     result_cache'[reuse_result_from(al_log'[Len(al_log')].case)],
                     result_cache[reuse_result_from(al_log'[Len(al_log')].case)])]_vars

\* the alias is run before its target has a result, and once more
C26_Witness ==
    /\ Len(al_log) >= 2
    /\ al_log[1].case = <<"sample", "1">> /\ ~al_log[1].reused
    /\ al_log[2].case = <<"sample", "1">> /\ al_log[2].reused
    /\ result_cache[<<"secret", "1">>].key = CacheKey(al_log[1])
    /\ result_cache[<<"sample", "1">>] = NoCache

\* a triple in which TLE under the high limit implies TLE under timelim,
\* and TLE under timelim implies TLE under the low limit
TLEChain(t) ==
    /\ t.res_high.verdict = "TLE" => t.res.verdict = "TLE"
    /\ t.res.verdict = "TLE" => t.res_low.verdict = "TLE"

\* the triples of the test cases and of the groups sample and secret
LeafTriples == UNION {{tr_leaves[g][i] : i \in 1..Len(tr_leaves[g])} : g \in Groups}

GroupTriples ==
    {tr_groups[i] : i \in 1..Len(tr_groups)}
    \cup (IF agg_group \in Groups /\ agg_out.exc = "none" THEN {triple_of(agg_out)}
          ELSE {})

\* the triple of the root, once it is aggregated
RootTriples ==
    IF agg_group = "root" /\ agg_out.exc = "none" THEN {triple_of(agg_out)} ELSE {}

\* the root takes the first verdict that is not AC, over groups that take
\* AC when some of their children are AC and some are not
MinOverSum == tr_cfg.root_aggregation = "min" /\ tr_cfg.aggregation = "sum"

\* C28 as stated: at every test case and at every group, under each
\* aggregation mode, a high result of TLE implies a primary result of TLE,
\* and a primary result of TLE implies a low result of TLE.
C28_AsStated ==
    \A t \in LeafTriples \cup GroupTriples \cup RootTriples : TLEChain(t)

\* C28 (amended): a high result of TLE implies a primary result of TLE, and
\* a primary result of TLE a low result of TLE, at every test case and at
\* every group, except a group that aggregates with min, or lies above such
\* a group, where the group aggregating with min has a child group that
\* aggregates with sum.
C28_TLEChain ==
    /\ \A t \in LeafTriples \cup GroupTriples : TLEChain(t)
    /\ ~MinOverSum => \A t \in RootTriples : TLEChain(t)

\* the root, over a sample and a secret case, is TLE under the high limit,
\* and some test case is TLE under timelim only
C28_Witness ==
    /\ pc = "done"
    /\ ~MinOverSum
    /\ agg_out.res_high.verdict = "TLE"
    /\ agg_out.res.verdict = "TLE"
    /\ \E g \in Groups :
          \E i \in 1..Len(tr_leaves[g]) :
             /\ tr_leaves[g][i].res.verdict = "TLE"
             /\ tr_leaves[g][i].res_high.verdict = "AC"

\* the high results of the two runs have one verdict and one
\* validator_first
SameHighResult ==
    /\ tc_ret[1].res_high.verdict = tc_ret[2].res_high.verdict
    /\ tc_ret[1].res_high.validator_first = tc_ret[2].res_high.validator_first

\* the high results are those of a validator that exited first with WA
ValidatorFirstWA ==
    tc_ret[1].res_high.validator_first /\ tc_ret[1].res_high.verdict = "WA"

\* the runtime of run k as validate_interactive reports it for a validator
\* that exited first with WA: no more than the high limit (lines 1436-1437)
ReportedRuntime(k) ==
    IF tc_call.runtimes[k] > tc_call.timelim_high * Scale
    THEN tc_call.timelim_high * Scale
    ELSE tc_call.runtimes[k]

\* C29 as stated: under limits timelim_low <= timelim <= timelim_high, of
\* two runs whose high results have the same verdict and validator_first,
\* if the one with the smaller runtime has a low result of TLE, so has the
\* other.
C29_AsStated ==
    (pc = "done" /\ SameHighResult) =>
        (tc_ret[1].res_low.verdict = "TLE" => tc_ret[2].res_low.verdict = "TLE")

\* C29 (amended): the same, unless the high result is that of a validator
\* that exited first with WA; for such a result the low result is TLE
\* exactly for the runtimes above timelim_low and up to timelim, and WA
\* below and above.
C29_Monotone ==
    (pc = "done" /\ SameHighResult) =>
        /\ ~ValidatorFirstWA =>
               (tc_ret[1].res_low.verdict = "TLE"
                    => tc_ret[2].res_low.verdict = "TLE")
        /\ ValidatorFirstWA =>
               \A k \in 1..2 :
                   tc_ret[k].res_low.verdict =
                       IF /\ ReportedRuntime(k) > tc_call.timelim_low * Scale
                          /\ ReportedRuntime(k) <= tc_call.timelim * Scale
                       THEN "TLE" ELSE "WA"

\* an accepted answer between the low limit and timelim and one above
\* timelim, and a validator-first WA at the same runtimes
C29_Witness ==
    /\ pc = "done"
    /\ SameHighResult
    /\ tc_call.runtimes[1] > tc_call.timelim_low * Scale
    /\ tc_call.runtimes[1] <= tc_call.timelim * Scale
    /\ tc_call.runtimes[2] > tc_call.timelim * Scale
    /\ tc_call.runtimes[2] <= tc_call.timelim_high * Scale
    /\ tc_ret[1].res_low.verdict = "TLE"
    /\ \/ tc_ret[2].res_high.verdict = "AC" /\ tc_ret[2].res_low.verdict = "TLE"
       \/ ValidatorFirstWA /\ tc_ret[2].res_low.verdict = "WA"

\* the verdicts a result may have
ResultVerdicts == {"AC", "WA", "TLE", "RTE", "JE"}

====
